---- MODULE Spec2Model ----
(***************************************************************************)
(* Layout engine of mindmaps-ai (src/utils/layout.ts, current version at   *)
(* lines 209-540, and the first engine kept in src/unnamed/part_001).      *)
(*                                                                         *)
(* Node and edge objects live in two heaps (sequences of objects); an      *)
(* array is a sequence of addresses into a heap.  The caller owns the      *)
(* arrays `nodes` and `edges`; a call of the engine allocates clones and   *)
(* writes through addresses, so aliasing between the caller's objects and  *)
(* the returned ones is visible in the model.  Positions and styles are    *)
(* values: every write site of the source builds a fresh object literal.  *)
(***************************************************************************)
EXTENDS Integers, Sequences, FiniteSets, TLC

VARIABLES nodeHeap, edgeHeap, nodes, edges, pc, out, prev, app

vars == <<nodeHeap, edgeHeap, nodes, edges, pc, out, prev, app>>

(***************************************************************************)
(* Bound of the explored inputs: nodes plus edges of the caller's graph.    *)
(***************************************************************************)
MaxSize == 5

\* bound of the wizard runs: submissions of the wizard form
MaxSubmits == 2

\* bound of the explored trees: nodes of a tree grown child by child
MaxTreeNodes == 6

\* bound of the graphs laid out twice: nodes plus edges of the caller's graph
MaxTwiceSize == 4

\* bound of the diagram view runs: ids made by handleAddNode, handleAddChild and
\* handleDrillDown together
MaxFresh == 1

\* bound of the diagram view runs: drill-down and update requests started
MaxRequests == 2

\* bound of the explored recursions: calls of one recursive function within one
\* layoutMindmap; a recursion that has not returned by then is cut and flagged
RecursionBudget == 12

IdPool == <<"a", "b", "c", "d", "e", "f", "g", "h">>

\* an id no node carries: an edge naming it is a dangling reference
AbsentId == "x"

\* the ids an edge of a graph with n nodes may name
Endpoints(n) == {IdPool[i] : i \in 1..n} \cup {AbsentId}

(***************************************************************************)
(* Program constants.                                                      *)
(***************************************************************************)
MINDMAP_H_SPACING == 250
MINDMAP_NODE_HEIGHT_SLOT == 60
LAYERED_X_SPACING == 200
LAYERED_Y_SPACING == 100

BRANCH_COLORS ==
  << "#2563eb", "#db2777", "#d97706", "#16a34a", "#7c3aed",
     "#0891b2", "#dc2626", "#4f46e5", "#be185d", "#059669" >>

UNIFORM_STROKE == "#64748b"

MINDMAP == "Mindmap"
FLOWCHART == "Flowchart"
ERD == "Entity-Relationship Diagram"
ORG_CHART == "Organizational Chart"
DiagramType == {MINDMAP, FLOWCHART, ERD, ORG_CHART}

TREE == "Tree"
RADIAL == "Radial"
HIERARCHICAL == "Hierarchical"
CIRCULAR == "Circular"
NETWORK == "Network"
LayoutStyle == {TREE, RADIAL, HIERARCHICAL, CIRCULAR, NETWORK}

(***************************************************************************)
(* Values.                                                                 *)
(***************************************************************************)
XY(x, y) == [x |-> x, y |-> y]

\* a style object; `defined = FALSE` is the JavaScript value undefined,
\* a field holding "absent" / 0 is a field the object does not have
StyleUndefined ==
  [defined |-> FALSE, stroke |-> "absent", strokeWidth |-> 0, strokeDasharray |-> "absent"]

\* { ...s }: spreading undefined gives the empty object
Spread(s) ==
  [defined |-> TRUE, stroke |-> s.stroke, strokeWidth |-> s.strokeWidth,
   strokeDasharray |-> s.strokeDasharray]

\* Map.set / Map.get of a JavaScript Map, as a function with a growing domain
MapSet(m, k, v) == [x \in (DOMAIN m) \cup {k} |-> IF x = k THEN v ELSE m[x]]
MapHas(m, k) == k \in DOMAIN m
MapGetOr(m, k, d) == IF k \in DOMAIN m THEN m[k] ELSE d
EmptyMap == [x \in {} |-> 0]

Max(S) == CHOOSE m \in S : \A s \in S : s <= m

\* `const v = ...; Body(v)`: the value is computed once and then named
Bind(v, Body(_)) == Body(v)

\* the node / edge objects an array refers to, in array order
NodeVals(nh, arr) == [i \in 1..Len(arr) |-> nh[arr[i]]]
EdgeVals(eh, arr) == [i \in 1..Len(arr) |-> eh[arr[i]]]

\* nodes.find(n => n.id === id): index of the first match, 0 for undefined
FindNode(nh, arr, id) ==
  IF \E i \in 1..Len(arr) : nh[arr[i]].id = id
  THEN CHOOSE i \in 1..Len(arr) :
         nh[arr[i]].id = id /\ \A j \in 1..(i - 1) : nh[arr[j]].id # id
  ELSE 0

\* edges.find(e => e.source === s && e.target === t)
FindEdge(eh, arr, s, t) ==
  IF \E i \in 1..Len(arr) : eh[arr[i]].source = s /\ eh[arr[i]].target = t
  THEN CHOOSE i \in 1..Len(arr) :
         /\ eh[arr[i]].source = s /\ eh[arr[i]].target = t
         /\ \A j \in 1..(i - 1) : ~(eh[arr[j]].source = s /\ eh[arr[j]].target = t)
  ELSE 0

\* the adjacency list built by `edges.forEach(e => adj.get(e.source).push(e.target))`
RECURSIVE adjGet(_, _)
adjGet(E, id) ==
  IF E = <<>> THEN <<>>
  ELSE (IF Head(E).source = id THEN <<Head(E).target>> ELSE <<>>) \o adjGet(Tail(E), id)

\* nodes.map(n => ({ ...n })): fresh objects appended to the heap
cloneArray(heap, arr) ==
  [heap |-> heap \o [i \in 1..Len(arr) |-> heap[arr[i]]],
   arr  |-> [i \in 1..Len(arr) |-> Len(heap) + i]]

\* arr.forEach((node, index) => node.position = P[index])
RECURSIVE forEachSetPosition(_, _, _, _)
forEachSetPosition(nh, arr, P, i) ==
  IF i > Len(arr) THEN nh
  ELSE forEachSetPosition([nh EXCEPT ![arr[i]].position = P[i]], arr, P, i + 1)

(***************************************************************************)
(* layoutGrid                                                              *)
(***************************************************************************)
\* variant: the square root is rounded down
CeilSqrt_floor(n) == CHOOSE c \in 0..n : c * c <= n /\ (c + 1) * (c + 1) > n

\* Math.ceil(Math.sqrt(n))
CeilSqrt(n) == CHOOSE c \in 0..n : c * c >= n /\ (c = 0 \/ (c - 1) * (c - 1) < n)

layoutGrid(nh, arr) ==
  LET cols == CeilSqrt(Len(arr))
      spacingX == 300
      spacingY == 200
      P == [i \in 1..Len(arr) |->
              XY(((i - 1) % cols) * spacingX, ((i - 1) \div cols) * spacingY)]
  IN  [nh |-> forEachSetPosition(nh, arr, P, 1), threw |-> FALSE]

(***************************************************************************)
(* layoutLayered                                                           *)
(***************************************************************************)
\* variant: a single relaxation pass
rankIterations_single(n) == 1

\* variant: one pass more than the node count plus two
rankIterations_extra(n) == n + 3

\* const iterations = nodes.length + 2
rankIterations(n) == n + 2

\* variant: a rank that was raised once is not raised again
RECURSIVE relaxPass_once(_, _, _)
relaxPass_once(st, E, k) ==
  IF k > Len(E) THEN st
  ELSE LET e == E[k]
           sourceRank == MapGetOr(st.ranks, e.source, 0)
           targetRank == MapGetOr(st.ranks, e.target, 0)
       IN  relaxPass_once(IF targetRank = 0
                          THEN [ranks |-> MapSet(st.ranks, e.target, sourceRank + 1),
                                changed |-> TRUE]
                          ELSE st, E, k + 1)

\* one edges.forEach pass of the relaxation; st = [ranks, changed]
RECURSIVE relaxPass(_, _, _)
relaxPass(st, E, k) ==
  IF k > Len(E) THEN st
  ELSE LET e == E[k]
           sourceRank == MapGetOr(st.ranks, e.source, 0)
           targetRank == MapGetOr(st.ranks, e.target, 0)
       IN  relaxPass(IF targetRank < sourceRank + 1
                     THEN [ranks |-> MapSet(st.ranks, e.target, sourceRank + 1),
                           changed |-> TRUE]
                     ELSE st, E, k + 1)

\* for (let i = 0; i < iterations; i++) { ...; if (!changed) break; }
RECURSIVE relaxLoop(_, _, _, _)
relaxLoop(ranks, E, i, iterations) ==
  IF i >= iterations THEN [ranks |-> ranks, passes |-> i, settled |-> FALSE]
  ELSE LET st == relaxPass([ranks |-> ranks, changed |-> FALSE], E, 1)
       IN  IF ~st.changed
           THEN [ranks |-> st.ranks, passes |-> i + 1, settled |-> TRUE]
           ELSE relaxLoop(st.ranks, E, i + 1, iterations)

assignRanks(ids, E) ==
  relaxLoop([x \in {ids[i] : i \in 1..Len(ids)} |-> 0], E, 0, rankIterations(Len(ids)))

\* variant: one layer too few
layerCount_short(maxRank) == maxRank

\* Array.from({ length: maxRank + 1 }, () => [])
layerCount(maxRank) == maxRank + 1

\* indices (into the node array) of the nodes of rank r, in input order
RECURSIVE layerOf(_, _, _, _)
layerOf(ids, ranks, r, i) ==
  IF i > Len(ids) THEN <<>>
  ELSE (IF MapGetOr(ranks, ids[i], 0) = r THEN <<i>> ELSE <<>>)
       \o layerOf(ids, ranks, r, i + 1)

\* getBarycenter of the node `id` in layer i, as the fraction num/den
RECURSIVE barySum(_, _, _, _, _, _)
barySum(E, k, id, ranks, i, prevIds) ==
  IF k > Len(E) THEN [num |-> 0, den |-> 0]
  ELSE LET rest == barySum(E, k + 1, id, ranks, i, prevIds)
           e == E[k]
           isParent == e.target = id /\ MapHas(ranks, e.source) /\ ranks[e.source] = i - 1
           pidx == IF \E j \in 1..Len(prevIds) : prevIds[j] = e.source
                   THEN (CHOOSE j \in 1..Len(prevIds) : prevIds[j] = e.source) - 1
                   ELSE 0
       IN  IF isParent THEN [num |-> rest.num + pidx, den |-> rest.den + 1] ELSE rest

getBarycenter(E, id, ranks, i, prevIds) ==
  LET s == barySum(E, 1, id, ranks, i, prevIds)
  IN  IF s.den = 0 THEN [num |-> -1, den |-> 1] ELSE s

\* getBarycenter(a) - getBarycenter(b) < 0
BaryLess(a, b) == a.num * b.den < b.num * a.den

\* currentLayer.sort(cmp): Array.prototype.sort is stable
RECURSIVE insertSorted(_, _, _)
insertSorted(sorted, x, B) ==
  IF sorted = <<>> THEN <<x>>
  ELSE LET last == sorted[Len(sorted)]
       IN  IF BaryLess(B[x], B[last])
           THEN insertSorted(SubSeq(sorted, 1, Len(sorted) - 1), x, B) \o <<last>>
           ELSE sorted \o <<x>>

RECURSIVE sortLayer(_, _, _)
sortLayer(layer, k, B) ==
  IF k = 0 THEN <<>>
  ELSE insertSorted(sortLayer(layer, k - 1, B), layer[k], B)

\* for (let i = 1; i < layers.length; i++) { ... currentLayer.sort(...) }
RECURSIVE crossingReduction(_, _, _, _, _)
crossingReduction(layers, i, ids, E, ranks) ==
  IF i >= Len(layers) THEN layers
  ELSE LET prevIds == [j \in 1..Len(layers[i]) |-> ids[layers[i][j]]]
           cur == layers[i + 1]
           B == [n \in {cur[j] : j \in 1..Len(cur)} |->
                   getBarycenter(E, ids[n], ranks, i, prevIds)]
       IN  crossingReduction([layers EXCEPT ![i + 1] = sortLayer(cur, Len(cur), B)],
                             i + 1, ids, E, ranks)

\* variant: the layer starts at 0 instead of being centred
layeredPosition_uncentred(direction, layerSize, r, idx) ==
  IF direction = "TB"
  THEN XY(idx * LAYERED_X_SPACING, r * LAYERED_Y_SPACING)
  ELSE XY(r * 300, idx * 100)

\* layers.forEach((layerNodes, r) => layerNodes.forEach((node, idx) => ...))
layeredPosition(direction, layerSize, r, idx) ==
  IF direction = "TB"
  THEN XY(-(((layerSize - 1) * LAYERED_X_SPACING) \div 2) + idx * LAYERED_X_SPACING,
          r * LAYERED_Y_SPACING)
  ELSE XY(r * 300, -(((layerSize - 1) * 100) \div 2) + idx * 100)

RECURSIVE assignLayerCoords(_, _, _, _, _)
assignLayerCoords(nh, arr, layers, r, direction) ==
  IF r > Len(layers) THEN nh
  ELSE LET L == layers[r]
           P == [k \in 1..Len(L) |-> layeredPosition(direction, Len(L), r - 1, k - 1)]
           layerArr == [k \in 1..Len(L) |-> arr[L[k]]]
       IN  assignLayerCoords(forEachSetPosition(nh, layerArr, P, 1),
                             arr, layers, r + 1, direction)

layoutLayered(nh, arr, E, direction) ==
  IF Len(arr) = 0
  THEN [nh |-> nh, threw |-> FALSE, ranks |-> EmptyMap, passes |-> 0,
        settled |-> TRUE, layers |-> <<>>]
  ELSE
    Bind([i \in 1..Len(arr) |-> nh[arr[i]].id], LAMBDA ids :
    Bind(assignRanks(ids, E), LAMBDA ra :
    Bind(ra.ranks, LAMBDA ranks :
    Bind(layerCount(Max({ranks[k] : k \in DOMAIN ranks})), LAMBDA len :
    \* layers[r].push(n) on a missing layer is a TypeError
    Bind(\E i \in 1..Len(ids) : MapGetOr(ranks, ids[i], 0) + 1 > len, LAMBDA threw :
    Bind(crossingReduction([r \in 1..len |-> layerOf(ids, ranks, r - 1, 1)],
                           1, ids, E, ranks), LAMBDA layers :
      [nh |-> IF threw THEN nh ELSE assignLayerCoords(nh, arr, layers, 1, direction),
       threw |-> threw, ranks |-> ranks, passes |-> ra.passes,
       settled |-> ra.settled, layers |-> layers]))))))

(***************************************************************************)
(* layoutMindmap                                                           *)
(***************************************************************************)
\* variant: the fallback root is the last node of the list
mindmapRoot_last(ids, E) ==
  LET incoming == {E[k].target : k \in 1..Len(E)}
  IN  IF \E i \in 1..Len(ids) : ids[i] \notin incoming
      THEN CHOOSE i \in 1..Len(ids) :
             ids[i] \notin incoming /\ \A j \in 1..(i - 1) : ids[j] \in incoming
      ELSE Len(ids)

\* const incoming = new Set(edges.map(e => e.target));
\* const root = nodes.find(n => !incoming.has(n.id)) || nodes[0];
\* the result is an index into the node array, 0 for undefined
mindmapRoot(ids, E) ==
  LET incoming == {E[k].target : k \in 1..Len(E)}
  IN  IF \E i \in 1..Len(ids) : ids[i] \notin incoming
      THEN CHOOSE i \in 1..Len(ids) :
             ids[i] \notin incoming /\ \A j \in 1..(i - 1) : ids[j] \in incoming
      ELSE IF Len(ids) > 0 THEN 1 ELSE 0

\* the cycle guard of calculateSubtreeHeight: visited.has(nodeId)
seenBefore(visited, nodeId) == nodeId \in visited

\* st = [h, visited, nodeData, calls, expanded, revisits, overrun]; h is the value
\* returned by the call; calls counts the calls made so far, expanded lists the
\* ids that passed the guard (one entry per pass), revisits lists the calls the
\* guard answered, each with the value it returned
RECURSIVE calculateSubtreeHeight(_, _, _)
RECURSIVE sumChildHeights(_, _, _, _)
calculateSubtreeHeight(E, nodeId, st) ==
  IF st.calls >= RecursionBudget THEN [st EXCEPT !.h = 0, !.overrun = TRUE]
  ELSE IF seenBefore(st.visited, nodeId)
  THEN [st EXCEPT !.h = MINDMAP_NODE_HEIGHT_SLOT, !.calls = @ + 1,
                  !.revisits = Append(@, [id |-> nodeId, h |-> MINDMAP_NODE_HEIGHT_SLOT])]
  ELSE LET children == adjGet(E, nodeId)
           st1 == [st EXCEPT !.visited = @ \cup {nodeId}, !.calls = @ + 1,
                             !.expanded = Append(@, nodeId)]
       IN  IF Len(children) = 0
           THEN [st1 EXCEPT !.h = MINDMAP_NODE_HEIGHT_SLOT,
                            !.nodeData = MapSet(@, nodeId, MINDMAP_NODE_HEIGHT_SLOT)]
           ELSE LET r == sumChildHeights(E, children, 1, [st1 EXCEPT !.h = 0])
                IN  [r EXCEPT !.nodeData = MapSet(@, nodeId, r.h)]

sumChildHeights(E, children, k, st) ==
  IF k > Len(children) THEN st
  ELSE LET r == calculateSubtreeHeight(E, children[k], st)
       IN  sumChildHeights(E, children, k + 1, [r EXCEPT !.h = st.h + r.h])

\* variant: every child counts for one leaf slot
sumHeights_count(children, nodeData, dflt) == Len(children) * MINDMAP_NODE_HEIGHT_SLOT

\* children.reduce((acc, id) => acc + (nodeData.get(id)?.height || dflt), 0)
RECURSIVE sumHeights(_, _, _)
sumHeights(children, nodeData, dflt) ==
  IF children = <<>> THEN 0
  ELSE MapGetOr(nodeData, Head(children), dflt) + sumHeights(Tail(children), nodeData, dflt)

\* variant: the children loop calls placeNode for every child
mayPlace_always(positioned, childId) == TRUE

\* the revisit guard of placeNode's children loop: !positioned.has(childId)
mayPlace(positioned, childId) == childId \notin positioned

\* ctx = [E, arr, nodeData]; st = [nh, positioned, writes, calls, recursed, overrun];
\* writes lists the ids of the nodes whose position was assigned, one entry per
\* assignment; calls counts the calls made so far; recursed lists the calls made
\* by the children loop, each with whether its node was unpositioned at the call
RECURSIVE placeNode(_, _, _, _, _, _)
RECURSIVE placeChildren(_, _, _, _, _, _, _)
placeNode(ctx, nodeId, x, y, direction, st) ==
  IF st.calls >= RecursionBudget THEN [st EXCEPT !.overrun = TRUE]
  ELSE
  LET idx == FindNode(st.nh, ctx.arr, nodeId)
      nh1 == IF idx # 0 THEN [st.nh EXCEPT ![ctx.arr[idx]].position = XY(x, y)] ELSE st.nh
      st1 == [st EXCEPT !.nh = nh1, !.positioned = @ \cup {nodeId},
                        !.writes = IF idx # 0 THEN Append(@, nodeId) ELSE @,
                        !.calls = @ + 1]
      children == adjGet(ctx.E, nodeId)
  IN  IF Len(children) = 0 THEN st1
      ELSE LET childrenTotalHeight ==
                 sumHeights(children, ctx.nodeData, MINDMAP_NODE_HEIGHT_SLOT)
           IN  placeChildren(ctx, children, 1, x, y - (childrenTotalHeight \div 2),
                             direction, st1)

placeChildren(ctx, children, k, x, currentChildY, direction, st) ==
  IF k > Len(children) THEN st
  ELSE LET childId == children[k]
           childHeight == MapGetOr(ctx.nodeData, childId, MINDMAP_NODE_HEIGHT_SLOT)
           childCenterY == currentChildY + (childHeight \div 2)
           childX == x + (direction * MINDMAP_H_SPACING)
           st1 == IF mayPlace(st.positioned, childId)
                  THEN placeNode(ctx, childId, childX, childCenterY, direction,
                                 [st EXCEPT !.recursed =
                                    Append(@, [id |-> childId,
                                               fresh |-> childId \notin st.positioned])])
                  ELSE st
       IN  placeChildren(ctx, children, k + 1, x, currentChildY + childHeight,
                         direction, st1)

\* rightChildren.forEach / leftChildren.forEach: the first-level placement
RECURSIVE placeBranch(_, _, _, _, _, _)
placeBranch(ctx, side, k, currentY, direction, st) ==
  IF k > Len(side) THEN st
  ELSE LET childId == side[k]
           h == MapGetOr(ctx.nodeData, childId, MINDMAP_NODE_HEIGHT_SLOT)
           st1 == placeNode(ctx, childId, direction * MINDMAP_H_SPACING,
                            currentY + (h \div 2), direction, st)
       IN  placeBranch(ctx, side, k + 1, currentY + h, direction, st1)

\* rootChildren.filter((_, i) => i % 2 === parity), i counted from 0
RECURSIVE filterParity(_, _, _)
filterParity(s, i, parity) ==
  IF i > Len(s) THEN <<>>
  ELSE (IF (i - 1) % 2 = parity THEN <<s[i]>> ELSE <<>>) \o filterParity(s, i + 1, parity)

\* the position of the i-th (from 0) unpositioned node
islandPosition(rootChildCount, i) == XY(0, (rootChildCount * 100) + (i * 100))

RECURSIVE placeIslands(_, _, _, _, _, _)
placeIslands(nh, arr, positioned, rootChildCount, k, i) ==
  IF k > Len(arr) THEN nh
  ELSE IF nh[arr[k]].id \in positioned
       THEN placeIslands(nh, arr, positioned, rootChildCount, k + 1, i)
       ELSE placeIslands([nh EXCEPT ![arr[k]].position = islandPosition(rootChildCount, i)],
                         arr, positioned, rootChildCount, k + 1, i + 1)

\* the call records of a layoutMindmap that made no recursive call
NoHeightCalls == [calls |-> 0, expanded |-> <<>>, revisits |-> <<>>, overrun |-> FALSE]
NoPlaceCalls == [calls |-> 0, recursed |-> <<>>, overrun |-> FALSE]

layoutMindmap(nh, arr, E) ==
  IF Len(arr) = 0
  THEN [nh |-> nh, threw |-> FALSE, root |-> 0, positioned |-> {},
        rootChildren |-> <<>>, nodeData |-> EmptyMap, writes |-> <<>>,
        heights |-> NoHeightCalls, placing |-> NoPlaceCalls]
  ELSE
    Bind([i \in 1..Len(arr) |-> nh[arr[i]].id], LAMBDA ids :
    Bind(mindmapRoot(ids, E), LAMBDA root :
    Bind(calculateSubtreeHeight(E, ids[root],
           [h |-> 0, visited |-> {}, nodeData |-> EmptyMap, calls |-> 0,
            expanded |-> <<>>, revisits |-> <<>>, overrun |-> FALSE]), LAMBDA hs :
    Bind(hs.nodeData, LAMBDA nodeData :
    Bind([E |-> E, arr |-> arr, nodeData |-> nodeData], LAMBDA ctx :
    Bind(adjGet(E, ids[root]), LAMBDA rootChildren :
    Bind(filterParity(rootChildren, 1, 0), LAMBDA rightChildren :
    Bind(filterParity(rootChildren, 1, 1), LAMBDA leftChildren :
    Bind(placeBranch(ctx, rightChildren, 1,
                     -(sumHeights(rightChildren, nodeData, 0) \div 2), 1,
                     [nh |-> [nh EXCEPT ![arr[root]].position = XY(0, 0)],
                      positioned |-> {ids[root]}, writes |-> <<ids[root]>>,
                      calls |-> 0, recursed |-> <<>>, overrun |-> FALSE]), LAMBDA st1 :
    Bind(placeBranch(ctx, leftChildren, 1,
                     -(sumHeights(leftChildren, nodeData, 0) \div 2), -1, st1), LAMBDA st2 :
      [nh |-> placeIslands(st2.nh, arr, st2.positioned, Len(rootChildren), 1, 0),
       threw |-> FALSE, root |-> root, positioned |-> st2.positioned,
       rootChildren |-> rootChildren, nodeData |-> nodeData,
       \* unpositioned.forEach assigns each remaining node once
       writes |-> st2.writes \o SelectSeq(ids, LAMBDA id : id \notin st2.positioned),
       heights |-> [calls |-> hs.calls, expanded |-> hs.expanded,
                    revisits |-> hs.revisits, overrun |-> hs.overrun],
       placing |-> [calls |-> st2.calls, recursed |-> st2.recursed,
                    overrun |-> st2.overrun]]))))))))))

(***************************************************************************)
(* assignBranchColors                                                      *)
(***************************************************************************)
\* incomingCount.get(id) || 0
RECURSIVE incomingCount(_, _)
incomingCount(E, id) ==
  IF E = <<>> THEN 0
  ELSE (IF Head(E).target = id THEN 1 ELSE 0) + incomingCount(Tail(E), id)

\* let root = nodes.find(n => (incomingCount.get(n.id) || 0) === 0);
\* if (!root && nodes.length > 0) root = nodes[0];
colorRoot(ids, E) ==
  IF \E i \in 1..Len(ids) : incomingCount(E, ids[i]) = 0
  THEN CHOOSE i \in 1..Len(ids) :
         incomingCount(E, ids[i]) = 0 /\ \A j \in 1..(i - 1) : incomingCount(E, ids[j]) # 0
  ELSE IF Len(ids) > 0 THEN 1 ELSE 0

\* variant: every child of the root gets the first palette entry
branchColorAt_first(idx) == BRANCH_COLORS[1]

\* BRANCH_COLORS[idx % BRANCH_COLORS.length], idx counted from 0
branchColorAt(idx) == BRANCH_COLORS[(idx % Len(BRANCH_COLORS)) + 1]

\* edge.style = { stroke: color, strokeWidth: 2 }; edge.animated = false;
styleBranchEdge(e, color) ==
  [e EXCEPT !.style = [defined |-> TRUE, stroke |-> color, strokeWidth |-> 2,
                       strokeDasharray |-> "absent"],
            !.animated = FALSE]

\* the edge styled for parent -> child, when edges.find returns one
colorFoundEdge(eh, earr, parent, child, color) ==
  LET k == FindEdge(eh, earr, parent, child)
  IN  IF k = 0 THEN eh ELSE [eh EXCEPT ![earr[k]] = styleBranchEdge(@, color)]

\* variant: descendants get a fixed palette entry instead of the branch colour
inheritedColor_fixed(color) == BRANCH_COLORS[2]

\* the colour handed to the children of a dequeued node
inheritedColor(color) == color

\* st = [eh, branchColors, queue, sets]; sets lists the branchColors.set calls, each
\* followed in the code by the queue.push of the same id and colour
\* rootChildren.forEach((childId, idx) => { ... })
RECURSIVE initRootChildren(_, _, _, _, _)
initRootChildren(st, earr, rootId, rootChildren, k) ==
  IF k > Len(rootChildren) THEN st
  ELSE LET childId == rootChildren[k]
           color == branchColorAt(k - 1)
       IN  initRootChildren(
             [eh |-> colorFoundEdge(st.eh, earr, rootId, childId, color),
              branchColors |-> MapSet(st.branchColors, childId, color),
              queue |-> Append(st.queue, [id |-> childId, color |-> color]),
              sets |-> Append(st.sets, [id |-> childId, color |-> color])],
             earr, rootId, rootChildren, k + 1)

\* children.forEach(childId => { if (!branchColors.has(childId)) { ... } })
RECURSIVE propagateTo(_, _, _, _, _, _)
propagateTo(st, earr, id, color, children, k) ==
  IF k > Len(children) THEN st
  ELSE LET childId == children[k]
       IN  propagateTo(
             IF ~MapHas(st.branchColors, childId)
             THEN [eh |-> colorFoundEdge(st.eh, earr, id, childId, color),
                   branchColors |-> MapSet(st.branchColors, childId, color),
                   queue |-> Append(st.queue, [id |-> childId, color |-> color]),
                   sets |-> Append(st.sets, [id |-> childId, color |-> color])]
             ELSE st,
             earr, id, color, children, k + 1)

\* while (queue.length > 0) { const { id, color } = queue.shift()!; ... }
RECURSIVE drainQueue(_, _, _)
drainQueue(st, earr, E) ==
  IF st.queue = <<>> THEN st
  ELSE LET item == Head(st.queue)
           st1 == [st EXCEPT !.queue = Tail(@)]
       IN  drainQueue(propagateTo(st1, earr, item.id, inheritedColor(item.color),
                                  adjGet(E, item.id), 1),
                      earr, E)

assignBranchColors(nh, arr, eh, earr) ==
  IF Len(arr) = 0
  THEN [eh |-> eh, root |-> 0, branchColors |-> EmptyMap, rootChildren |-> <<>>,
        sets |-> <<>>]
  ELSE
    Bind([i \in 1..Len(arr) |-> nh[arr[i]].id], LAMBDA ids :
    Bind(EdgeVals(eh, earr), LAMBDA E :
    Bind(colorRoot(ids, E), LAMBDA root :
    Bind(adjGet(E, ids[root]), LAMBDA rootChildren :
    Bind(initRootChildren([eh |-> eh, branchColors |-> EmptyMap, queue |-> <<>>,
                           sets |-> <<>>],
                          earr, ids[root], rootChildren, 1), LAMBDA st0 :
    Bind(drainQueue(st0, earr, E), LAMBDA st1 :
      [eh |-> st1.eh, root |-> root, branchColors |-> st1.branchColors,
       rootChildren |-> rootChildren, sets |-> st1.sets]))))))

(***************************************************************************)
(* applyLayout (src/utils/layout.ts, current version)                      *)
(***************************************************************************)
\* variant: the array is copied but not its objects
cloneNodes_alias(nh, arr) == [heap |-> nh, arr |-> arr]

\* const newNodes = nodes.map(n => ({ ...n }))
cloneNodes(nh, arr) == cloneArray(nh, arr)

\* variant: the edge array is copied but not its objects
cloneEdges_alias(eh, arr) == [heap |-> eh, arr |-> arr]

\* let newEdges = edges.map(e => ({ ...e }))
cloneEdges(eh, arr) == cloneArray(eh, arr)

\* const direction = (style === LayoutStyle.RADIAL) ? 'LR' : 'TB'
layeredDirection(style) == IF style = RADIAL THEN "LR" ELSE "TB"

\* variant: the style object is replaced instead of extended
styleUniformEdge_replace(e) == styleBranchEdge(e, UNIFORM_STROKE)

\* e.style = { ...e.style, stroke: '#64748b', strokeWidth: 2 }; e.animated = false;
styleUniformEdge(e) ==
  [e EXCEPT !.style = [Spread(e.style) EXCEPT !.stroke = UNIFORM_STROKE, !.strokeWidth = 2],
            !.animated = FALSE]

RECURSIVE forEachUniform(_, _, _)
forEachUniform(eh, earr, k) ==
  IF k > Len(earr) THEN eh
  ELSE forEachUniform([eh EXCEPT ![earr[k]] = styleUniformEdge(@)], earr, k + 1)

\* the locals of a call that did not run layoutRadial
NoRadial == [center |-> 0, visited |-> {}, placed |-> <<>>, unvisited |-> <<>>]

NoInternals ==
  [ranks |-> EmptyMap, passes |-> 0, settled |-> TRUE, layers |-> <<>>,
   root |-> 0, positioned |-> {}, rootChildren |-> <<>>, writes |-> <<>>,
   nodeData |-> EmptyMap, heights |-> NoHeightCalls, placing |-> NoPlaceCalls,
   colorRoot |-> 0, colorChildren |-> <<>>, branchColors |-> EmptyMap,
   colorSets |-> <<>>, radial |-> NoRadial]

\* the value of the call: the heaps after it, the returned arrays, whether it
\* threw, and the locals of the strategy that ran
\* step 1 of applyLayout: the positioning strategy chosen by diagramType
applyPositioning(nh, newNodes, E, style, diagramType) ==
  IF diagramType = MINDMAP
  THEN Bind(layoutMindmap(nh, newNodes, E), LAMBDA mm :
         [nh |-> mm.nh, threw |-> mm.threw,
          locals |-> [NoInternals EXCEPT !.root = mm.root, !.positioned = mm.positioned,
                                         !.rootChildren = mm.rootChildren,
                                         !.writes = mm.writes,
                                         !.nodeData = mm.nodeData,
                                         !.heights = mm.heights,
                                         !.placing = mm.placing]])
  ELSE IF diagramType = ERD
  THEN Bind(layoutGrid(nh, newNodes), LAMBDA gr :
         [nh |-> gr.nh, threw |-> gr.threw, locals |-> NoInternals])
  ELSE Bind(layoutLayered(nh, newNodes, E, layeredDirection(style)), LAMBDA ly :
         [nh |-> ly.nh, threw |-> ly.threw,
          locals |-> [NoInternals EXCEPT !.ranks = ly.ranks, !.passes = ly.passes,
                                         !.settled = ly.settled, !.layers = ly.layers]])

\* step 2 of applyLayout: branch colouring or the uniform style
applyStyling(nh, newNodes, eh, newEdges, diagramType, locals) ==
  IF diagramType = MINDMAP \/ diagramType = ORG_CHART
  THEN Bind(assignBranchColors(nh, newNodes, eh, newEdges), LAMBDA bc :
         [eh |-> bc.eh,
          locals |-> [locals EXCEPT !.colorRoot = bc.root,
                                    !.colorChildren = bc.rootChildren,
                                    !.branchColors = bc.branchColors,
                                    !.colorSets = bc.sets]])
  ELSE [eh |-> forEachUniform(eh, newEdges, 1), locals |-> locals]

\* the value of the call: the heaps after it, the returned arrays, whether it
\* threw, and the locals of the strategy that ran
applyLayout(nh, eh, narr, earr, style, diagramType) ==
  Bind(cloneNodes(nh, narr), LAMBDA cn :
  Bind(cloneEdges(eh, earr), LAMBDA ce :
  Bind(applyPositioning(cn.heap, cn.arr, EdgeVals(ce.heap, ce.arr), style, diagramType),
       LAMBDA pos :
    IF pos.threw
    THEN [nh |-> pos.nh, eh |-> ce.heap, nodes |-> <<>>, edges |-> <<>>,
          threw |-> TRUE, locals |-> pos.locals]
    ELSE Bind(applyStyling(pos.nh, cn.arr, ce.heap, ce.arr, diagramType, pos.locals),
              LAMBDA sty :
           [nh |-> pos.nh, eh |-> sty.eh, nodes |-> cn.arr, edges |-> ce.arr,
            threw |-> FALSE, locals |-> sty.locals]))))

(***************************************************************************)
(* The first engine (src/unnamed/part_001)                                 *)
(***************************************************************************)
\* a point on a circle: (radius * cos(2*pi*num/den), radius * sin(2*pi*num/den))
Polar(radius, num, den) == [radius |-> radius, num |-> num, den |-> den]

\* const newNodes = [...nodes]: a new array of the same objects
copyArray_p1(arr) == arr

\* st = [levels, visited, queue]
RECURSIVE bfsLevels_p1(_, _)
bfsLevels_p1(st, E) ==
  IF st.queue = <<>> THEN st
  ELSE LET item == Head(st.queue)
           rest == Tail(st.queue)
       IN  IF item.id \in st.visited
           THEN bfsLevels_p1([st EXCEPT !.queue = rest], E)
           ELSE LET children == adjGet(E, item.id)
                IN  bfsLevels_p1(
                      [levels |-> MapSet(st.levels, item.id, item.level),
                       visited |-> st.visited \cup {item.id},
                       queue |-> rest \o [k \in 1..Len(children) |->
                                            [id |-> children[k], level |-> item.level + 1]]],
                      E)

layoutTree_p1(nh, arr, E, roots) ==
  LET NODE_WIDTH == 180
      LEVEL_HEIGHT == 150
      \* roots.map(r => ({ id: r.id, level: 0 })) on [undefined] is a TypeError
      threw == \E k \in 1..Len(roots) : roots[k] = 0
  IN  IF threw THEN [nh |-> nh, threw |-> TRUE]
      ELSE
        LET ids == [i \in 1..Len(arr) |-> nh[arr[i]].id]
            bfs == bfsLevels_p1(
                     [levels |-> EmptyMap, visited |-> {},
                      queue |-> [k \in 1..Len(roots) |-> [id |-> ids[roots[k]], level |-> 0]]],
                     E)
            levelOf(i) == MapGetOr(bfs.levels, ids[i], 0)
            \* nodesByLevel[level]: the nodes of one level in input order
            indexInLevel(i) == Cardinality({j \in 1..(i - 1) : levelOf(j) = levelOf(i)})
            sizeOfLevel(i) == Cardinality({j \in 1..Len(arr) : levelOf(j) = levelOf(i)})
            P == [i \in 1..Len(arr) |->
                    XY(-((sizeOfLevel(i) * NODE_WIDTH) \div 2) + indexInLevel(i) * NODE_WIDTH,
                       levelOf(i) * LEVEL_HEIGHT)]
        IN  [nh |-> forEachSetPosition(nh, arr, P, 1), threw |-> FALSE]

\* st = [nh, visited, next]; one currentLevelNodes.forEach
RECURSIVE radialLevel_p1(_, _, _, _, _, _)
radialLevel_p1(st, arr, E, cur, radius, index) ==
  IF index > Len(cur) THEN st
  ELSE LET nodeId == cur[index]
       IN  IF nodeId \in st.visited
           THEN radialLevel_p1(st, arr, E, cur, radius, index + 1)
           ELSE LET k == FindNode(st.nh, arr, nodeId)
                    nh1 == IF k # 0
                           THEN [st.nh EXCEPT ![arr[k]].position =
                                   Polar(radius, index - 1, Len(cur))]
                           ELSE st.nh
                IN  radialLevel_p1(
                      [nh |-> nh1, visited |-> st.visited \cup {nodeId},
                       next |-> st.next \o adjGet(E, nodeId)],
                      arr, E, cur, radius, index + 1)

\* while (currentLevelNodes.length > 0) { ... }
RECURSIVE radialLoop_p1(_, _, _, _, _, _)
radialLoop_p1(nh, visited, arr, E, cur, radius) ==
  IF Len(cur) = 0 THEN nh
  ELSE LET st == radialLevel_p1([nh |-> nh, visited |-> visited, next |-> <<>>],
                                arr, E, cur, radius, 1)
       IN  radialLoop_p1(st.nh, st.visited, arr, E, st.next, radius + 250)

\* centerId is "undefined" when startNodes[0] is undefined
layoutRadial_p1(nh, arr, E, centerId) ==
  LET RADIUS_INCREMENT == 250
      k == FindNode(nh, arr, centerId)
      nh1 == IF k # 0 THEN [nh EXCEPT ![arr[k]].position = XY(0, 0)] ELSE nh
  IN  [nh |-> radialLoop_p1(nh1, {centerId}, arr, E, adjGet(E, centerId), RADIUS_INCREMENT),
       threw |-> FALSE]

applyLayout_p1(nh, eh, narr, earr, style) ==
  Bind([i \in 1..Len(narr) |-> nh[narr[i]].id], LAMBDA ids :
  Bind(EdgeVals(eh, earr), LAMBDA E :
  Bind({E[k].target : k \in 1..Len(E)}, LAMBDA targetIds :
  Bind(SelectSeq([i \in 1..Len(narr) |-> i], LAMBDA i : ids[i] \notin targetIds),
       LAMBDA roots :
  \* [nodes[0]] holds undefined (index 0) when the node list is empty
  Bind(IF Len(roots) > 0 THEN roots ELSE <<IF Len(narr) > 0 THEN 1 ELSE 0>>,
       LAMBDA startNodes :
  Bind(IF style = RADIAL \/ style = CIRCULAR
       THEN layoutRadial_p1(nh, copyArray_p1(narr), E,
                            IF startNodes[1] = 0 THEN "undefined" ELSE ids[startNodes[1]])
       ELSE layoutTree_p1(nh, copyArray_p1(narr), E, startNodes), LAMBDA r :
    [nh |-> r.nh, eh |-> eh,
     nodes |-> IF r.threw THEN <<>> ELSE copyArray_p1(narr),
     edges |-> IF r.threw THEN <<>> ELSE earr,
     threw |-> r.threw, locals |-> NoInternals]))))))

(***************************************************************************)
(* The earlier engine kept in src/utils/layout.ts (lines 1-208)            *)
(***************************************************************************)
X_SPACING == 250
Y_SPACING == 150

\* an angular range [2*pi*lo/den, 2*pi*hi/den)
Sector(lo, hi, den) == [lo |-> lo, hi |-> hi, den |-> den]

\* the idx-th (from 0) of count equal parts of the range s:
\* startAngle + sectorPerChild * idx  to  startAngle + sectorPerChild * (idx + 1)
subSector(s, count, idx) ==
  Sector(count * s.lo + (s.hi - s.lo) * idx,
         count * s.lo + (s.hi - s.lo) * (idx + 1),
         s.den * count)

\* startAngle + (sectorPerChild * idx) + (sectorPerChild / 2), as a fraction of 2*pi
childAngle(s, count, idx) ==
  [num |-> 2 * count * s.lo + (s.hi - s.lo) * (2 * idx + 1), den |-> 2 * s.den * count]

\* edges.filter(e => e.source === parentId).map(e => nodes.find(n => n.id === e.target))
\*      .filter(n => !!n && !visited.has(n.id)): indices into the node array
radialChildren(nh, arr, E, parentId, visited) ==
  SelectSeq([k \in 1..Len(adjGet(E, parentId)) |->
               FindNode(nh, arr, adjGet(E, parentId)[k])],
            LAMBDA i : i # 0 /\ nh[arr[i]].id \notin visited)

\* st = [nh, visited, placed]; placed lists the assignments child.position = ...,
\* each with the range of its parent and the part handed to the child
RECURSIVE layoutChildren(_, _, _, _, _, _)
RECURSIVE forEachChild(_, _, _, _, _, _, _, _)
layoutChildren(arr, E, parentId, range, level, st) ==
  LET children == radialChildren(st.nh, arr, E, parentId, st.visited)
  IN  IF Len(children) = 0 THEN st
      ELSE forEachChild(arr, E, parentId, range, level, children, 1, st)

forEachChild(arr, E, parentId, range, level, children, k, st) ==
  IF k > Len(children) THEN st
  ELSE LET child == arr[children[k]]
           childId == st.nh[child].id
           angle == childAngle(range, Len(children), k - 1)
           part == subSector(range, Len(children), k - 1)
           radius == level * 300
           st1 == [nh |-> [st.nh EXCEPT ![child].position =
                             Polar(radius, angle.num, angle.den)],
                   visited |-> st.visited \cup {childId},
                   placed |-> Append(st.placed,
                                [id |-> childId, parent |-> parentId, level |-> level,
                                 range |-> range, part |-> part, angle |-> angle,
                                 radius |-> radius])]
       IN  forEachChild(arr, E, parentId, range, level, children, k + 1,
                        layoutChildren(arr, E, childId, part, level + 1, st1))

\* degA / degB of the root fallback: edges with the id as source or target
degree(E, id) == Cardinality({k \in 1..Len(E) : E[k].source = id \/ E[k].target = id})

\* nodes.sort((a, b) => degB - degA): stable, by degree descending
RECURSIVE insertByDegree(_, _, _)
insertByDegree(sorted, x, deg) ==
  IF sorted = <<>> THEN <<x>>
  ELSE LET last == sorted[Len(sorted)]
       IN  IF deg[x] > deg[last]
           THEN insertByDegree(SubSeq(sorted, 1, Len(sorted) - 1), x, deg) \o <<last>>
           ELSE sorted \o <<x>>

RECURSIVE sortByDegree(_, _, _)
sortByDegree(arr, k, deg) ==
  IF k = 0 THEN <<>>
  ELSE insertByDegree(sortByDegree(arr, k - 1, deg), arr[k], deg)

\* unvisited.forEach((n, i) => n.position = { x: -500, y: i * 150 })
RECURSIVE placeUnvisited(_, _, _, _, _)
placeUnvisited(nh, arr, visited, k, i) ==
  IF k > Len(arr) THEN nh
  ELSE IF nh[arr[k]].id \in visited
       THEN placeUnvisited(nh, arr, visited, k + 1, i)
       ELSE placeUnvisited([nh EXCEPT ![arr[k]].position = XY(-500, i * 150)],
                           arr, visited, k + 1, i + 1)

\* the result names the node array as the call leaves it (the fallback sorts it)
layoutRadial(nh, arr, E) ==
  IF Len(arr) = 0
  THEN [nh |-> nh, arr |-> arr, center |-> 0, visited |-> {}, placed |-> <<>>,
        unvisited |-> <<>>]
  ELSE
    Bind({E[k].target : k \in 1..Len(E)}, LAMBDA targets :
    Bind(SelectSeq(arr, LAMBDA a : nh[a].id \notin targets), LAMBDA roots :
    Bind(IF Len(roots) = 0
         THEN sortByDegree(arr, Len(arr), [a \in {arr[k] : k \in 1..Len(arr)} |->
                                             degree(E, nh[a].id)])
         ELSE arr, LAMBDA arr1 :
    Bind(IF Len(roots) = 0 THEN arr1[1] ELSE roots[1], LAMBDA center :
    Bind(layoutChildren(arr1, E, nh[center].id, Sector(0, 1, 1), 1,
                        [nh |-> [nh EXCEPT ![center].position = XY(0, 0)],
                         visited |-> {nh[center].id}, placed |-> <<>>]), LAMBDA st :
      [nh |-> placeUnvisited(st.nh, arr1, st.visited, 1, 0), arr |-> arr1,
       center |-> center, visited |-> st.visited, placed |-> st.placed,
       unvisited |-> SelectSeq([k \in 1..Len(arr1) |-> nh[arr1[k]].id],
                               LAMBDA id : id \notin st.visited)])))))

\* layoutGrid of lines 140-153
layoutGrid_old(nh, arr) ==
  LET cols == CeilSqrt(Len(arr))
      spacingX == 300
      spacingY == 250
      P == [i \in 1..Len(arr) |->
              XY(((i - 1) % cols) * spacingX, ((i - 1) \div cols) * spacingY)]
  IN  forEachSetPosition(nh, arr, P, 1)

\* the coordinate assignment of lines 113-134
layeredPosition_old(direction, layerSize, r, idx) ==
  IF direction = "TB"
  THEN XY(-(((layerSize - 1) * X_SPACING) \div 2) + idx * X_SPACING, r * Y_SPACING)
  ELSE XY(r * 300, -(((layerSize - 1) * 120) \div 2) + idx * 120)

RECURSIVE assignLayerCoords_old(_, _, _, _, _)
assignLayerCoords_old(nh, arr, layers, r, direction) ==
  IF r > Len(layers) THEN nh
  ELSE LET L == layers[r]
           P == [k \in 1..Len(L) |-> layeredPosition_old(direction, Len(L), r - 1, k - 1)]
           layerArr == [k \in 1..Len(L) |-> arr[L[k]]]
       IN  assignLayerCoords_old(forEachSetPosition(nh, layerArr, P, 1),
                                 arr, layers, r + 1, direction)

\* layoutLayered of lines 66-135: ranks and sweep as in the later version
layoutLayered_old(nh, arr, E, direction) ==
  IF Len(arr) = 0 THEN [nh |-> nh, threw |-> FALSE]
  ELSE
    Bind([i \in 1..Len(arr) |-> nh[arr[i]].id], LAMBDA ids :
    Bind(assignRanks(ids, E).ranks, LAMBDA ranks :
    Bind(layerCount(Max({ranks[k] : k \in DOMAIN ranks})), LAMBDA len :
    Bind(\E i \in 1..Len(ids) : MapGetOr(ranks, ids[i], 0) + 1 > len, LAMBDA threw :
    Bind(crossingReduction([r \in 1..len |-> layerOf(ids, ranks, r - 1, 1)],
                           1, ids, E, ranks), LAMBDA layers :
      [nh |-> IF threw THEN nh ELSE assignLayerCoords_old(nh, arr, layers, 1, direction),
       threw |-> threw])))))

\* applyLayout of lines 9-31: the nodes are cloned, the edges are returned as given
applyLayout_old(nh, eh, narr, earr, style, diagramType) ==
  Bind(cloneNodes(nh, narr), LAMBDA cn :
  Bind(EdgeVals(eh, earr), LAMBDA E :
    IF diagramType = MINDMAP /\ style = RADIAL
    THEN Bind(layoutRadial(cn.heap, cn.arr, E), LAMBDA rd :
           [nh |-> rd.nh, nodes |-> rd.arr, edges |-> earr, threw |-> FALSE,
            radial |-> [center |-> rd.center, visited |-> rd.visited,
                        placed |-> rd.placed, unvisited |-> rd.unvisited]])
    ELSE IF diagramType = ERD
    THEN [nh |-> layoutGrid_old(cn.heap, cn.arr), nodes |-> cn.arr, edges |-> earr,
          threw |-> FALSE, radial |-> NoRadial]
    ELSE Bind(layoutLayered_old(cn.heap, cn.arr, E,
                                IF diagramType = MINDMAP THEN "LR" ELSE "TB"), LAMBDA ly :
           [nh |-> ly.nh, nodes |-> IF ly.threw THEN <<>> ELSE cn.arr,
            edges |-> IF ly.threw THEN <<>> ELSE earr,
            threw |-> ly.threw, radial |-> NoRadial])))

(***************************************************************************)
(* The state machine: a caller holding a graph calls the engine once.      *)
(***************************************************************************)
\* the position a caller's node has before the call (a dragged node)
InputPosition == XY(1, 1)

\* the edge shapes the callers build, in the order they alternate along the
\* edge array of a diagram that was restyled and then extended: restyled edges
\* carrying further style fields, and handleAddChild / onConnect edges
\* (animated, no style)
EdgeShapes ==
  << [style |-> [defined |-> TRUE, stroke |-> "#000000", strokeWidth |-> 5,
                 strokeDasharray |-> "5 5"], animated |-> TRUE],
     [style |-> StyleUndefined, animated |-> TRUE] >>

\* useState('wizard'), useState(false), useState(null); request holds the
\* arguments of the handleWizardSubmit call that is awaiting generateDiagram,
\* env and alert what the last call met and showed, layoutCalls the number of
\* applyLayout calls made by the handler
NoDiagram == [set |-> FALSE, nodes |-> <<>>, edges |-> <<>>, type |-> "none"]
NoRequest == [type |-> "none", layout |-> "none"]
NoReply == [kind |-> "none", message |-> "", nodes |-> <<>>, edges |-> <<>>]
NoEnv == [apiKey |-> FALSE, reply |-> NoReply]

AppInit ==
  [view |-> "wizard", loading |-> FALSE, diagramData |-> NoDiagram,
   request |-> NoRequest, env |-> NoEnv, alert |-> "", submits |-> 0, layoutCalls |-> 0]

\* the arguments of a call as the engine reads them: the objects behind the
\* caller's arrays at the moment of the call
Given(nh, eh, narr, earr) == [nodes |-> NodeVals(nh, narr), edges |-> EdgeVals(eh, earr)]

NoOut ==
  [engine |-> "none", diagramType |-> "none", style |-> "none",
   given |-> Given(<<>>, <<>>, <<>>, <<>>),
   nodes |-> <<>>, edges |-> <<>>, threw |-> FALSE, locals |-> NoInternals]

\* no earlier call
NoPrev == [call |-> NoOut, nodeVals |-> <<>>, edgeVals |-> <<>>]

Init ==
  \E n \in 0..MaxSize :
   \E m \in 0..(MaxSize - n) :
    \E src \in [1..m -> Endpoints(n)], tgt \in [1..m -> Endpoints(n)] :
      /\ nodeHeap = [i \in 1..n |-> [id |-> IdPool[i], position |-> InputPosition]]
      /\ nodes = [i \in 1..n |-> i]
      /\ edgeHeap = [k \in 1..m |->
                       [id |-> k, source |-> src[k], target |-> tgt[k],
                        style |-> EdgeShapes[((k - 1) % 2) + 1].style,
                        animated |-> EdgeShapes[((k - 1) % 2) + 1].animated]]
      /\ edges = [k \in 1..m |-> k]
      /\ pc = "ready"
      /\ out = NoOut
      /\ prev = NoPrev
      /\ app = AppInit

CallApplyLayout ==
  /\ pc = "ready"
  /\ \E style \in LayoutStyle, diagramType \in DiagramType :
       \E r \in {applyLayout(nodeHeap, edgeHeap, nodes, edges, style, diagramType)} :
           /\ nodeHeap' = r.nh
           /\ edgeHeap' = r.eh
           /\ out' = [engine |-> "current", diagramType |-> diagramType, style |-> style,
                      given |-> Given(nodeHeap, edgeHeap, nodes, edges),
                      nodes |-> r.nodes, edges |-> r.edges, threw |-> r.threw,
                      locals |-> r.locals]
  /\ pc' = "done"
  /\ UNCHANGED <<nodes, edges, prev, app>>

\* the caller, still holding its arrays, calls the engine a second time with the
\* same diagram type and layout style; the first result is kept as values
CallApplyLayoutAgain ==
  /\ pc = "done"
  /\ out.engine = "current"
  /\ \E r \in {applyLayout(nodeHeap, edgeHeap, nodes, edges, out.style, out.diagramType)} :
       /\ nodeHeap' = r.nh
       /\ edgeHeap' = r.eh
       /\ out' = [engine |-> "current", diagramType |-> out.diagramType,
                  style |-> out.style,
                  given |-> Given(nodeHeap, edgeHeap, nodes, edges),
                  nodes |-> r.nodes, edges |-> r.edges, threw |-> r.threw,
                  locals |-> r.locals]
  /\ prev' = [call |-> out, nodeVals |-> NodeVals(nodeHeap, out.nodes),
              edgeVals |-> EdgeVals(edgeHeap, out.edges)]
  /\ pc' = "again"
  /\ UNCHANGED <<nodes, edges, app>>

CallApplyLayout_p1 ==
  /\ pc = "ready"
  /\ \E style \in LayoutStyle :
       \E r \in {applyLayout_p1(nodeHeap, edgeHeap, nodes, edges, style)} :
           /\ nodeHeap' = r.nh
           /\ edgeHeap' = r.eh
           /\ out' = [engine |-> "part_001", diagramType |-> "none", style |-> style,
                      given |-> Given(nodeHeap, edgeHeap, nodes, edges),
                      nodes |-> r.nodes, edges |-> r.edges, threw |-> r.threw,
                      locals |-> r.locals]
  /\ pc' = "done"
  /\ UNCHANGED <<nodes, edges, prev, app>>

\* the engine in use: src/utils/layout.ts, lines 231-265
Next == CallApplyLayout

Spec == Init /\ [][Next]_vars

\* the first engine: src/unnamed/part_001
NextP1 == CallApplyLayout_p1

SpecP1 == Init /\ [][NextP1]_vars

\* a caller holding a tree: the node labelled c > 1 was added as a child of an
\* earlier node par[c]; the node array and the edge array list the tree in the
\* order of growth or against it
InitTree ==
  \E n \in 1..MaxTreeNodes :
   \E par \in [2..n -> 1..n], nodesReversed \in BOOLEAN, edgesReversed \in BOOLEAN :
     /\ \A c \in 2..n : par[c] < c
     /\ nodeHeap = [i \in 1..n |->
                      [id |-> IdPool[IF nodesReversed THEN n + 1 - i ELSE i],
                       position |-> InputPosition]]
     /\ nodes = [i \in 1..n |-> i]
     /\ edgeHeap = [k \in 1..(n - 1) |->
                      [id |-> k,
                       source |-> IdPool[par[IF edgesReversed THEN n + 1 - k ELSE k + 1]],
                       target |-> IdPool[IF edgesReversed THEN n + 1 - k ELSE k + 1],
                       style |-> EdgeShapes[((k - 1) % 2) + 1].style,
                       animated |-> EdgeShapes[((k - 1) % 2) + 1].animated]]
     /\ edges = [k \in 1..(n - 1) |-> k]
     /\ pc = "ready"
     /\ out = NoOut
     /\ prev = NoPrev
     /\ app = AppInit

\* the earlier engine of src/utils/layout.ts called once
CallApplyLayout_old ==
  /\ pc = "ready"
  /\ \E style \in LayoutStyle, diagramType \in DiagramType :
       \E r \in {applyLayout_old(nodeHeap, edgeHeap, nodes, edges, style, diagramType)} :
           /\ nodeHeap' = r.nh
           /\ out' = [engine |-> "earlier", diagramType |-> diagramType, style |-> style,
                      given |-> Given(nodeHeap, edgeHeap, nodes, edges),
                      nodes |-> r.nodes, edges |-> r.edges, threw |-> r.threw,
                      locals |-> [NoInternals EXCEPT !.radial = r.radial]]
  /\ pc' = "done"
  /\ UNCHANGED <<edgeHeap, nodes, edges, prev, app>>

NextOld == CallApplyLayout_old

SpecOld == Init /\ [][NextOld]_vars

\* the engine called on a tree
SpecTree == InitTree /\ [][Next]_vars

\* two calls in a row on the graph the caller holds
NextTwice == CallApplyLayout \/ CallApplyLayoutAgain

\* the graphs a caller lays out twice, built as those of Init
InitTwice ==
  \E n \in 0..MaxTwiceSize :
   \E m \in 0..(MaxTwiceSize - n) :
    \E src \in [1..m -> Endpoints(n)], tgt \in [1..m -> Endpoints(n)] :
      /\ nodeHeap = [i \in 1..n |-> [id |-> IdPool[i], position |-> InputPosition]]
      /\ nodes = [i \in 1..n |-> i]
      /\ edgeHeap = [k \in 1..m |->
                       [id |-> k, source |-> src[k], target |-> tgt[k],
                        style |-> EdgeShapes[((k - 1) % 2) + 1].style,
                        animated |-> EdgeShapes[((k - 1) % 2) + 1].animated]]
      /\ edges = [k \in 1..m |-> k]
      /\ pc = "ready"
      /\ out = NoOut
      /\ prev = NoPrev
      /\ app = AppInit

SpecTwice == InitTwice /\ [][NextTwice]_vars

(***************************************************************************)
(* The wizard of src/App.tsx and generateDiagram of src/services/gemini.ts *)
(***************************************************************************)
\* what the model answers: generateContent rejects, answers without text,
\* answers text that is not JSON, answers JSON without a nodes array, or
\* answers a graph
RawGraphs ==
  { [kind |-> "json", message |-> "", nodes |-> <<>>, edges |-> <<>>],
    [kind |-> "json", message |-> "", nodes |-> <<"a">>, edges |-> <<>>],
    [kind |-> "json", message |-> "", nodes |-> <<"a", "b", "c">>,
     edges |-> << [source |-> "a", target |-> "b"], [source |-> "a", target |-> "c"],
                  [source |-> "b", target |-> AbsentId] >>] }

Replies ==
  { [kind |-> "rejects", message |-> "", nodes |-> <<>>, edges |-> <<>>],
    [kind |-> "noText", message |-> "", nodes |-> <<>>, edges |-> <<>>],
    [kind |-> "notJson", message |-> "", nodes |-> <<>>, edges |-> <<>>],
    [kind |-> "jsonNoNodes", message |-> "", nodes |-> <<>>, edges |-> <<>>] }
  \cup RawGraphs

\* process.env.API_KEY is set or not; without it no request is made
Environments ==
  {[apiKey |-> FALSE, reply |-> NoReply]} \cup {[apiKey |-> TRUE, reply |-> r] : r \in Replies}

\* error.message || "Unknown AI error"
OrDefault(m, dflt) == IF m = "" THEN dflt ELSE m

Rejected(message) == [rejected |-> TRUE, message |-> message, value |-> NoReply]
Resolved(value) == [rejected |-> FALSE, message |-> "", value |-> value]

\* variant: an answer without text is taken as an empty graph
generateDiagram_lenient(env) ==
  IF ~env.apiKey
  THEN Rejected("API Key is missing. Please ensure API_KEY is set in your .env file and RESTART the server.")
  ELSE IF env.reply.kind = "rejects"
  THEN Rejected(OrDefault(env.reply.message, "Unknown AI error"))
  ELSE IF env.reply.kind = "notJson"
  THEN Rejected(OrDefault("AI returned invalid JSON format.", "Unknown AI error"))
  ELSE IF env.reply.kind = "noText"
  THEN Resolved([kind |-> "json", message |-> "", nodes |-> <<>>, edges |-> <<>>])
  ELSE Resolved(env.reply)

\* the promise generateDiagram returns, settled
generateDiagram(env) ==
  IF ~env.apiKey
  THEN Rejected("API Key is missing. Please ensure API_KEY is set in your .env file and RESTART the server.")
  ELSE IF env.reply.kind = "rejects"
  THEN Rejected(OrDefault(env.reply.message, "Unknown AI error"))
  ELSE IF env.reply.kind = "notJson"
  THEN Rejected(OrDefault("AI returned invalid JSON format.", "Unknown AI error"))
  ELSE IF env.reply.kind = "noText"
  THEN Rejected(OrDefault("No content generated from Gemini.", "Unknown AI error"))
  ELSE Resolved(env.reply)

\* rawData.nodes.map(n => ({ id: n.id, position: { x: 0, y: 0 }, ... }))
buildNodes(nh, raw) ==
  [heap |-> nh \o [i \in 1..Len(raw.nodes) |-> [id |-> raw.nodes[i], position |-> XY(0, 0)]],
   arr  |-> [i \in 1..Len(raw.nodes) |-> Len(nh) + i]]

\* rawData.edges.map((e, idx) => ({ id: `e${idx}`, ..., animated: false,
\*                                  style: { strokeWidth: 2 } }))
buildEdges(eh, raw) ==
  [heap |-> eh \o [k \in 1..Len(raw.edges) |->
                     [id |-> k - 1, source |-> raw.edges[k].source,
                      target |-> raw.edges[k].target,
                      style |-> [defined |-> TRUE, stroke |-> "absent", strokeWidth |-> 2,
                                 strokeDasharray |-> "absent"],
                      animated |-> FALSE]],
   arr  |-> [k \in 1..Len(raw.edges) |-> Len(eh) + k]]

\* alert(`Failed to generate diagram: ${msg}`)
alertText(msg) == <<"Failed to generate diagram: ", msg>>

InitWizard ==
  /\ nodeHeap = <<>>
  /\ edgeHeap = <<>>
  /\ nodes = <<>>
  /\ edges = <<>>
  /\ pc = "idle"
  /\ out = NoOut
  /\ prev = NoPrev
  /\ app = AppInit

\* handleWizardSubmit up to its await: the form is shown only in the wizard
\* view while nothing is loading
handleWizardSubmit_call ==
  /\ pc = "idle"
  /\ app.view = "wizard"
  /\ ~app.loading
  /\ app.submits < MaxSubmits
  /\ \E type \in DiagramType, layout \in LayoutStyle :
       app' = [app EXCEPT !.loading = TRUE,
                          !.request = [type |-> type, layout |-> layout],
                          !.submits = @ + 1]
  /\ pc' = "awaiting"
  /\ UNCHANGED <<nodeHeap, edgeHeap, nodes, edges, out, prev>>

\* the awaited promise rejects: catch, then finally
handleWizardSubmit_rejected ==
  /\ pc = "awaiting"
  /\ \E env \in Environments :
       \E g \in {generateDiagram(env)} :
         /\ g.rejected
         /\ app' = [app EXCEPT !.alert = alertText(g.message), !.env = env,
                               !.request = NoRequest, !.loading = FALSE]
  /\ pc' = "idle"
  /\ UNCHANGED <<nodeHeap, edgeHeap, nodes, edges, out, prev>>

\* the awaited promise resolves: the rest of the try block, then finally
handleWizardSubmit_resolved ==
  /\ pc = "awaiting"
  /\ \E env \in Environments :
       \E g \in {generateDiagram(env)} :
         /\ ~g.rejected
         /\ IF g.value.kind = "jsonNoNodes"
            THEN \* rawData.nodes.map on undefined is a TypeError
                 /\ app' = [app EXCEPT !.alert = alertText("TypeError"), !.env = env,
                                       !.request = NoRequest, !.loading = FALSE]
                 /\ UNCHANGED <<nodeHeap, edgeHeap, nodes, edges>>
            ELSE \E bn \in {buildNodes(nodeHeap, g.value)}, be \in {buildEdges(edgeHeap, g.value)} :
                  \E r \in {applyLayout(bn.heap, be.heap, bn.arr, be.arr,
                                        app.request.layout, app.request.type)} :
                    /\ nodeHeap' = r.nh
                    /\ edgeHeap' = r.eh
                    /\ nodes' = bn.arr
                    /\ edges' = be.arr
                    /\ app' = IF r.threw
                              THEN [app EXCEPT !.alert = alertText("TypeError"), !.env = env,
                                               !.request = NoRequest, !.loading = FALSE,
                                               !.layoutCalls = @ + 1]
                              ELSE [app EXCEPT !.diagramData =
                                                 [set |-> TRUE, nodes |-> r.nodes,
                                                  edges |-> r.edges, type |-> app.request.type],
                                               !.view = "diagram", !.env = env,
                                               !.request = NoRequest, !.loading = FALSE,
                                               !.layoutCalls = @ + 1]
  /\ pc' = "idle"
  /\ UNCHANGED <<out, prev>>

\* onReset={() => setView('wizard')}
onReset ==
  /\ pc = "idle"
  /\ app.view = "diagram"
  /\ app.diagramData.set
  /\ app' = [app EXCEPT !.view = "wizard"]
  /\ UNCHANGED <<nodeHeap, edgeHeap, nodes, edges, pc, out, prev>>

NextWizard ==
  \/ handleWizardSubmit_call
  \/ handleWizardSubmit_rejected
  \/ handleWizardSubmit_resolved
  \/ onReset

SpecWizard == InitWizard /\ [][NextWizard]_vars

(***************************************************************************)
(* The diagram view of src/components/DiagramView.tsx.  The variables      *)
(* nodes and edges are the two React Flow state arrays, whose objects no   *)
(* handler writes into: every handler installs new arrays.  app holds the  *)
(* rest of the component state and the closures of the pending requests.   *)
(***************************************************************************)
\* the ids `manual-${Date.now()}`, `child-${Date.now()}` and `gen-${Date.now()}-${idx}`,
\* in the order they are made (two handlers never run in the same millisecond)
FreshIds == <<"n1", "n2", "n3", "n4", "n5">>

\* the graphs the wizard hands over, and those an update request answers with
ViewGraphs ==
  { [kind |-> "json", message |-> "", nodes |-> <<"a">>, edges |-> <<>>],
    [kind |-> "json", message |-> "", nodes |-> <<"a", "b">>,
     edges |-> << [source |-> "a", target |-> "b"] >>] }

UpdateGraphs ==
  { [kind |-> "json", message |-> "", nodes |-> <<"b">>, edges |-> <<>>],
    [kind |-> "json", message |-> "", nodes |-> <<"a", "c">>,
     edges |-> << [source |-> "a", target |-> "c"] >>] }

\* the texts of the prompt input
PromptTexts == {"", " ", "add c"}

\* promptText.trim()
trim(text) == IF text = " " THEN "" ELSE text

NoSelection == [id |-> "none", position |-> XY(0, 0)]
NoClosure == [pending |-> FALSE, nodes |-> <<>>, edges |-> <<>>, selectedNode |-> NoSelection]

\* the component state after the first render; beside the useState values:
\* drillDown is the closure of the pending handleDrillDown, updates the number of
\* pending updateDiagram calls, clock the ids made so far, requests the requests
\* started and alerts the alert() dialogs shown
ViewInit(diagramType) ==
  [selectedNode |-> NoSelection, loadingAction |-> "null", promptText |-> "",
   isUpdating |-> FALSE, diagramType |-> diagramType, drillDown |-> NoClosure,
   updates |-> 0, clock |-> 0, requests |-> 0, alerts |-> 0]

\* setNodes(value) / setEdges(value)
setNodes(value) == nodeHeap' = value /\ nodes' = [i \in 1..Len(value) |-> i]
setEdges(value) == edgeHeap' = value /\ edges' = [k \in 1..Len(value) |-> k]

\* let layoutStyle = LayoutStyle.TREE;
\* if (diagramType === DiagramType.MINDMAP) layoutStyle = LayoutStyle.RADIAL;
viewLayoutStyle(diagramType) == IF diagramType = MINDMAP THEN RADIAL ELSE TREE

\* applyLayout(allNodes, allEdges, layoutStyle, diagramType) on arrays of values
layouted(nodeVals, edgeVals, diagramType) ==
  Bind(applyLayout(nodeVals, edgeVals, [i \in 1..Len(nodeVals) |-> i],
                   [k \in 1..Len(edgeVals) |-> k],
                   viewLayoutStyle(diagramType), diagramType), LAMBDA r :
    [nodes |-> NodeVals(r.nh, r.nodes), edges |-> EdgeVals(r.eh, r.edges),
     threw |-> r.threw])

\* { id: `e-...`, source, target, type: 'smoothstep', markerEnd, animated: true }
viewEdge(source, target, stamp) ==
  [id |-> stamp, source |-> source, target |-> target, style |-> StyleUndefined,
   animated |-> TRUE]

InitView ==
  \E g \in ViewGraphs, diagramType \in DiagramType, layout \in LayoutStyle :
    \E bn \in {buildNodes(<<>>, g)}, be \in {buildEdges(<<>>, g)} :
      \E r \in {applyLayout(bn.heap, be.heap, bn.arr, be.arr, layout, diagramType)} :
        /\ nodeHeap = NodeVals(r.nh, r.nodes)
        /\ nodes = [i \in 1..Len(r.nodes) |-> i]
        /\ edgeHeap = EdgeVals(r.eh, r.edges)
        /\ edges = [k \in 1..Len(r.edges) |-> k]
        /\ pc = "diagram"
        /\ out = NoOut
        /\ prev = NoPrev
        /\ app = ViewInit(diagramType)

onNodeClick ==
  /\ pc = "diagram"
  /\ \E i \in 1..Len(nodes) :
       app' = [app EXCEPT !.selectedNode = nodeHeap[nodes[i]]]
  /\ UNCHANGED <<nodeHeap, edgeHeap, nodes, edges, pc, out, prev>>

onPaneClick ==
  /\ pc = "diagram"
  /\ app' = [app EXCEPT !.selectedNode = NoSelection]
  /\ UNCHANGED <<nodeHeap, edgeHeap, nodes, edges, pc, out, prev>>

\* the input is disabled while an update is running
onPromptChange ==
  /\ pc = "diagram"
  /\ ~app.isUpdating
  /\ \E text \in PromptTexts :
       app' = [app EXCEPT !.promptText = text]
  /\ UNCHANGED <<nodeHeap, edgeHeap, nodes, edges, pc, out, prev>>

handleDeleteNode ==
  /\ pc = "diagram"
  /\ app.selectedNode # NoSelection
  /\ setNodes(SelectSeq(NodeVals(nodeHeap, nodes), LAMBDA n : n.id # app.selectedNode.id))
  /\ setEdges(SelectSeq(EdgeVals(edgeHeap, edges),
                        LAMBDA e : e.source # app.selectedNode.id
                                     /\ e.target # app.selectedNode.id))
  /\ app' = [app EXCEPT !.selectedNode = NoSelection]
  /\ UNCHANGED <<pc, out, prev>>

handleAddNode ==
  /\ pc = "diagram"
  /\ app.clock < MaxFresh
  /\ setNodes(Append(NodeVals(nodeHeap, nodes),
                     [id |-> FreshIds[app.clock + 1], position |-> XY(100, 100)]))
  /\ app' = [app EXCEPT !.clock = @ + 1]
  /\ UNCHANGED <<edgeHeap, edges, pc, out, prev>>

handleAddChild ==
  /\ pc = "diagram"
  /\ app.selectedNode # NoSelection
  /\ app.clock < MaxFresh
  /\ setNodes(Append(NodeVals(nodeHeap, nodes),
                     [id |-> FreshIds[app.clock + 1],
                      position |-> XY(app.selectedNode.position.x,
                                      app.selectedNode.position.y + 150)]))
  /\ setEdges(Append(EdgeVals(edgeHeap, edges),
                     viewEdge(app.selectedNode.id, FreshIds[app.clock + 1], app.clock)))
  /\ app' = [app EXCEPT !.clock = @ + 1]
  /\ UNCHANGED <<pc, out, prev>>

\* handleDrillDown up to its await; the button is disabled while loadingAction is set
handleDrillDown_call ==
  /\ pc = "diagram"
  /\ app.selectedNode # NoSelection
  /\ app.loadingAction = "null"
  /\ app.requests < MaxRequests
  /\ app' = [app EXCEPT !.loadingAction = "Drilling down...", !.requests = @ + 1,
                        !.drillDown = [pending |-> TRUE,
                                       nodes |-> NodeVals(nodeHeap, nodes),
                                       edges |-> EdgeVals(edgeHeap, edges),
                                       selectedNode |-> app.selectedNode]]
  /\ UNCHANGED <<nodeHeap, edgeHeap, nodes, edges, pc, out, prev>>

\* drillDownNode resolves with count new nodes: the rest of the try block, then finally
handleDrillDown_resolved ==
  /\ pc = "diagram"
  /\ app.drillDown.pending
  /\ \E count \in 0..2 :
       /\ app.clock + count <= MaxFresh
       /\ LET newIds == [i \in 1..count |-> FreshIds[app.clock + i]]
              newNodes == [i \in 1..count |-> [id |-> newIds[i], position |-> XY(0, 0)]]
              newEdges == [i \in 1..count |->
                             viewEdge(app.drillDown.selectedNode.id, newIds[i], app.clock + i)]
              result == layouted(app.drillDown.nodes \o newNodes,
                                 app.drillDown.edges \o newEdges, app.diagramType)
          IN  /\ IF result.threw
                 THEN UNCHANGED <<nodeHeap, edgeHeap, nodes, edges>>
                 ELSE setNodes(result.nodes) /\ setEdges(result.edges)
              /\ app' = [app EXCEPT !.clock = @ + count,
                                    !.alerts = IF result.threw THEN @ + 1 ELSE @,
                                    !.loadingAction = "null",
                                    !.selectedNode = NoSelection,
                                    !.drillDown = NoClosure]
  /\ UNCHANGED <<pc, out, prev>>

\* drillDownNode rejects: catch with alert("Failed to drill down. Try again."),
\* then finally
handleDrillDown_rejected ==
  /\ pc = "diagram"
  /\ app.drillDown.pending
  /\ app' = [app EXCEPT !.alerts = @ + 1, !.loadingAction = "null",
                        !.selectedNode = NoSelection,
                        !.drillDown = NoClosure]
  /\ UNCHANGED <<nodeHeap, edgeHeap, nodes, edges, pc, out, prev>>

\* variant: a submission is not held back by a running update
maySubmit_always(promptText, isUpdating) == trim(promptText) # ""

\* if (!promptText.trim() || isUpdating) return;
maySubmit(promptText, isUpdating) == ~(trim(promptText) = "" \/ isUpdating)

\* handlePromptSubmit up to its await
handlePromptSubmit_call ==
  /\ pc = "diagram"
  /\ maySubmit(app.promptText, app.isUpdating)
  /\ app.requests < MaxRequests
  /\ app' = [app EXCEPT !.isUpdating = TRUE, !.updates = @ + 1, !.requests = @ + 1]
  /\ UNCHANGED <<nodeHeap, edgeHeap, nodes, edges, pc, out, prev>>

\* updateDiagram resolves: the rest of the try block, then finally
handlePromptSubmit_resolved ==
  /\ pc = "diagram"
  /\ app.updates > 0
  /\ \E g \in UpdateGraphs \cup {[kind |-> "jsonNoNodes", message |-> "",
                                  nodes |-> <<>>, edges |-> <<>>]} :
       IF g.kind = "jsonNoNodes"
       THEN \* result.nodes.map on undefined is a TypeError, caught as a rejection is
            /\ app' = [app EXCEPT !.alerts = @ + 1, !.isUpdating = FALSE,
                                  !.updates = @ - 1]
            /\ UNCHANGED <<nodeHeap, edgeHeap, nodes, edges>>
       ELSE LET newNodes == [i \in 1..Len(g.nodes) |->
                               [id |-> g.nodes[i], position |-> XY(0, 0)]]
                newEdges == [k \in 1..Len(g.edges) |->
                               viewEdge(g.edges[k].source, g.edges[k].target, k - 1)]
                result == layouted(newNodes, newEdges, app.diagramType)
            IN  IF result.threw
                THEN /\ app' = [app EXCEPT !.alerts = @ + 1, !.isUpdating = FALSE,
                                  !.updates = @ - 1]
                     /\ UNCHANGED <<nodeHeap, edgeHeap, nodes, edges>>
                ELSE /\ setNodes(result.nodes)
                     /\ setEdges(result.edges)
                     /\ app' = [app EXCEPT !.promptText = "", !.isUpdating = FALSE,
                                           !.updates = @ - 1]
  /\ UNCHANGED <<pc, out, prev>>

\* updateDiagram rejects: catch with alert("Failed to update diagram. Please try
\* again."), then finally
handlePromptSubmit_rejected ==
  /\ pc = "diagram"
  /\ app.updates > 0
  /\ app' = [app EXCEPT !.alerts = @ + 1, !.isUpdating = FALSE,
                                  !.updates = @ - 1]
  /\ UNCHANGED <<nodeHeap, edgeHeap, nodes, edges, pc, out, prev>>

NextView ==
  \/ onNodeClick
  \/ onPaneClick
  \/ onPromptChange
  \/ handleDeleteNode
  \/ handleAddNode
  \/ handleAddChild
  \/ handleDrillDown_call
  \/ handleDrillDown_resolved
  \/ handleDrillDown_rejected
  \/ handlePromptSubmit_call
  \/ handlePromptSubmit_resolved
  \/ handlePromptSubmit_rejected

SpecView == InitView /\ [][NextView]_vars

\* the view without drill-down requests: hand edits and prompt updates
NextPrompt ==
  \/ onNodeClick
  \/ onPaneClick
  \/ onPromptChange
  \/ handleDeleteNode
  \/ handleAddNode
  \/ handleAddChild
  \/ handlePromptSubmit_call
  \/ handlePromptSubmit_resolved
  \/ handlePromptSubmit_rejected

\* every promise of updateDiagram settles, so the continuation of
\* handlePromptSubmit runs
SpecPrompt ==
  /\ InitView
  /\ [][NextPrompt]_vars
  /\ WF_vars(handlePromptSubmit_resolved \/ handlePromptSubmit_rejected)

(***************************************************************************)
(* Vocabulary of the properties.                                           *)
(***************************************************************************)
Done == pc = "done" /\ out.engine = "current"

\* a step that is a complete call of the engine
CallStep == pc = "ready" /\ pc' = "done"

InIds == [i \in 1..Len(nodes) |-> nodeHeap[nodes[i]].id]
InIdSet == {InIds[i] : i \in 1..Len(nodes)}
InEdges == EdgeVals(edgeHeap, edges)
OutNodes == NodeVals(nodeHeap, out.nodes)
OutEdges == EdgeVals(edgeHeap, out.edges)

Palette == {BRANCH_COLORS[i] : i \in 1..Len(BRANCH_COLORS)}

\* ids reachable from the ids of S along the edges of E, S included
RECURSIVE ReachFrom(_, _)
ReachFrom(E, S) ==
  LET T == S \cup {E[k].target : k \in {j \in 1..Len(E) : E[j].source \in S}}
  IN  IF T = S THEN S ELSE ReachFrom(E, T)

\* ids reachable from id by a path of at least one edge
ReachBelow(E, id) ==
  ReachFrom(E, {E[k].target : k \in {j \in 1..Len(E) : E[j].source = id}})

Acyclic(E) == \A k \in 1..Len(E) : E[k].source \notin ReachBelow(E, E[k].source)

Dangling(e) == e.source \notin InIdSet \/ e.target \notin InIdSet

BranchType(t) == t = MINDMAP \/ t = ORG_CHART

(***************************************************************************)
(* C1  Totality of applyLayout: the call returns without throwing, the     *)
(* result holds exactly one node per input node id, each with a position   *)
(* written by the engine (the caller's position (1,1) lies on no lattice a *)
(* strategy uses), and as many edges as the input with the same edge ids.  *)
(***************************************************************************)
C1_Totality ==
  Done =>
    /\ ~out.threw
    /\ Len(out.nodes) = Len(nodes)
    /\ \A i \in 1..Len(nodes) :
         Cardinality({j \in 1..Len(out.nodes) : OutNodes[j].id = InIds[i]}) = 1
    /\ \A j \in 1..Len(out.nodes) :
         /\ OutNodes[j].position # InputPosition
         /\ DOMAIN OutNodes[j].position = {"x", "y"}
         /\ OutNodes[j].position.x \in Int
         /\ OutNodes[j].position.y \in Int
    /\ Len(out.edges) = Len(edges)
    /\ \A k \in 1..Len(edges) : OutEdges[k].id = InEdges[k].id

\* a degenerate graph went through: a self-loop and a dangling edge
C1_Witness ==
  /\ Done
  /\ ~out.threw
  /\ Len(nodes) >= 2
  /\ \E k \in 1..Len(edges) :
       InEdges[k].source = InEdges[k].target /\ ~Dangling(InEdges[k])
  /\ \E k \in 1..Len(edges) : Dangling(InEdges[k])

(***************************************************************************)
(* C2  applyLayout never changes what the caller passed in: over a call    *)
(* the caller's arrays keep their elements and every caller-owned node and *)
(* edge object keeps its fields (position, style, animated).               *)
(***************************************************************************)
C2_CallerUntouched ==
  [][ (CallStep /\ out'.engine = "current") =>
        /\ nodes' = nodes
        /\ edges' = edges
        /\ NodeVals(nodeHeap', nodes') = NodeVals(nodeHeap, nodes)
        /\ EdgeVals(edgeHeap', edges') = EdgeVals(edgeHeap, edges) ]_vars

\* the call did write positions and styles, into objects of its own
C2_Witness ==
  /\ Done
  /\ \E j \in 1..Len(out.nodes) : OutNodes[j].position # nodeHeap[nodes[j]].position
  /\ \E k \in 1..Len(out.edges) :
       /\ OutEdges[k].style # InEdges[k].style
       /\ OutEdges[k].animated # InEdges[k].animated

(***************************************************************************)
(* C3  The applyLayout of part_001 never mutates caller-supplied           *)
(* structures: every node object passed in keeps the position it had       *)
(* before the call.                                                        *)
(***************************************************************************)
C3_P1CallerNodesKeepPosition ==
  [][ (CallStep /\ out'.engine = "part_001") =>
        \A i \in 1..Len(nodes) :
          nodeHeap'[nodes[i]].position = nodeHeap[nodes[i]].position ]_vars

(***************************************************************************)
(* C4  Dangling edges do not influence geometry: the positions returned    *)
(* for a graph equal the positions returned for the same graph without     *)
(* the edges whose source or target is not the id of an input node.        *)
(***************************************************************************)
\* the caller's edge array without the dangling edges
PrunedEdges == SelectSeq(edges, LAMBDA a : ~Dangling(edgeHeap[a]))

PositionsOf(nh, arr) == [i \in 1..Len(arr) |-> nh[arr[i]].position]

C4_DanglingEdgesIgnored ==
  Done =>
    PositionsOf(nodeHeap, out.nodes) =
      Bind(applyLayout(nodeHeap, edgeHeap, nodes, PrunedEdges, out.style, out.diagramType),
           LAMBDA r : PositionsOf(r.nh, r.nodes))

(***************************************************************************)
(* C5  Island placement in layoutMindmap: every node with no path from the *)
(* chosen root lies outside the bounding box of the positions of the root  *)
(* and the nodes reachable from it, also when the root has no children.    *)
(***************************************************************************)
MainIndices ==
  {j \in 1..Len(out.nodes) :
     OutNodes[j].id \in ReachFrom(OutEdges, {OutNodes[out.locals.root].id})}

OutsideBox(p, S) ==
  \/ \A j \in S : p.x < OutNodes[j].position.x
  \/ \A j \in S : p.x > OutNodes[j].position.x
  \/ \A j \in S : p.y < OutNodes[j].position.y
  \/ \A j \in S : p.y > OutNodes[j].position.y

C5_IslandsOutsideMainBox ==
  (Done /\ out.diagramType = MINDMAP /\ Len(out.nodes) > 0) =>
    \A j \in (1..Len(out.nodes)) \ MainIndices :
      OutsideBox(OutNodes[j].position, MainIndices)

(***************************************************************************)
(* Branch colouring as seen in the result.                                 *)
(***************************************************************************)
ColorRootId == OutNodes[out.locals.colorRoot].id
ColorChildren == out.locals.colorChildren

\* the edge was styled by assignBranchColors (no input stroke is a palette colour)
BranchStyled(e) == e.style.defined /\ e.style.stroke \in Palette

\* the stroke of the styled edge from the root to its child C
RootEdgeStroke(C) ==
  OutEdges[FindEdge(edgeHeap, out.edges, ColorRootId, C)].style.stroke

ColoredCall == Done /\ BranchType(out.diagramType) /\ Len(out.nodes) > 0

C7_DistinctBranchColors ==
  (ColoredCall
     /\ Cardinality({ColorChildren[i] : i \in 1..Len(ColorChildren)}) <= Len(BRANCH_COLORS))
  =>
    /\ \A i, j \in 1..Len(ColorChildren) :
         ColorChildren[i] # ColorChildren[j] =>
           out.locals.branchColors[ColorChildren[i]] # out.locals.branchColors[ColorChildren[j]]
    /\ \A i \in 1..Len(ColorChildren) :
         out.locals.branchColors[ColorChildren[i]] = branchColorAt(i - 1)

(***************************************************************************)
(* C8  For Mindmap and OrgChart every returned edge carries a style        *)
(* populated by the branch colouring: a palette stroke, strokeWidth 2 and  *)
(* animated = false.                                                       *)
(***************************************************************************)
C8_EveryEdgeBranchStyled ==
  (Done /\ BranchType(out.diagramType)) =>
    \A k \in 1..Len(out.edges) :
      /\ BranchStyled(OutEdges[k])
      /\ OutEdges[k].style.strokeWidth = 2
      /\ OutEdges[k].animated = FALSE

(***************************************************************************)
(* C9  For Flowchart and ERD every returned edge has stroke '#64748b',     *)
(* strokeWidth 2 and animated = false whatever the input edge carried, and *)
(* keeps the other style fields of the input edge.                         *)
(***************************************************************************)
C9_UniformEdgeStyle ==
  [][ (CallStep /\ out'.engine = "current" /\ out'.diagramType \in {FLOWCHART, ERD}) =>
        /\ Len(out'.edges) = Len(edges)
        /\ \A k \in 1..Len(edges) :
             /\ edgeHeap'[out'.edges[k]].style.defined
             /\ edgeHeap'[out'.edges[k]].style.stroke = UNIFORM_STROKE
             /\ edgeHeap'[out'.edges[k]].style.strokeWidth = 2
             /\ edgeHeap'[out'.edges[k]].animated = FALSE
             /\ edgeHeap'[out'.edges[k]].style.strokeDasharray
                  = edgeHeap[edges[k]].style.strokeDasharray ]_vars

\* an animated input edge with its own stroke, width and dash pattern was restyled
C9_Witness ==
  /\ Done
  /\ out.diagramType \in {FLOWCHART, ERD}
  /\ \E k \in 1..Len(out.edges) :
       /\ InEdges[k].animated /\ InEdges[k].style.stroke = "#000000"
       /\ InEdges[k].style.strokeWidth = 5
       /\ OutEdges[k].style.stroke = UNIFORM_STROKE
       /\ OutEdges[k].style.strokeDasharray = "5 5"
       /\ ~OutEdges[k].animated

(***************************************************************************)
(* C10  Layer monotonicity: for an acyclic edge list whose edges all join  *)
(* two input nodes, in any order, after the rank assignment of             *)
(* layoutLayered every edge (s,t) has rank(t) >= rank(s) + 1.              *)
(***************************************************************************)
LayeredCall == Done /\ out.diagramType \in {FLOWCHART, ORG_CHART} /\ Len(out.nodes) > 0

C10_LayerMonotone ==
  (LayeredCall /\ Acyclic(InEdges) /\ \A k \in 1..Len(edges) : ~Dangling(InEdges[k])) =>
    \A k \in 1..Len(edges) :
      out.locals.ranks[InEdges[k].target] >= out.locals.ranks[InEdges[k].source] + 1

\* an acyclic chain listed against its direction: ranks settle only in the third pass
C10_Witness ==
  /\ LayeredCall
  /\ Acyclic(InEdges)
  /\ \A k \in 1..Len(edges) : ~Dangling(InEdges[k])
  /\ Len(edges) >= 2
  /\ out.locals.passes >= 3
  /\ \E k \in 1..Len(edges) : out.locals.ranks[InEdges[k].target] >= 2

(***************************************************************************)
(* C11  Layer non-collision in layoutLayered: the k nodes of one rank get, *)
(* in layer order, the packing-axis coordinates -(k-1)*s/2 + i*s for       *)
(* i = 0..k-1 (s = 200 on x top-to-bottom, s = 100 on y left-to-right), so *)
(* two distinct nodes of one rank differ on the packing axis and the layer *)
(* is centred on 0; the layering-axis coordinate is the rank times a fixed *)
(* constant (100 on y top-to-bottom, 300 on x left-to-right).              *)
(***************************************************************************)
LeftToRight == out.style = RADIAL
PackingAxis(p) == IF LeftToRight THEN p.y ELSE p.x
LayeringAxis(p) == IF LeftToRight THEN p.x ELSE p.y
RankOf(j) == out.locals.ranks[OutNodes[j].id]
LayerSum(L) == LET RECURSIVE S(_)
                   S(i) == IF i > Len(L) THEN 0
                           ELSE PackingAxis(OutNodes[L[i]].position) + S(i + 1)
               IN  S(1)

C11_LayerNonCollision ==
  LayeredCall =>
    /\ \A j \in 1..Len(out.nodes) :
         /\ RankOf(j) + 1 \in 1..Len(out.locals.layers)
         /\ Cardinality({i \in 1..Len(out.locals.layers[RankOf(j) + 1]) :
                           out.locals.layers[RankOf(j) + 1][i] = j}) = 1
    /\ \A r \in 1..Len(out.locals.layers) :
         /\ \A i \in 1..Len(out.locals.layers[r]) :
              /\ RankOf(out.locals.layers[r][i]) = r - 1
              /\ 2 * PackingAxis(OutNodes[out.locals.layers[r][i]].position)
                   = (2 * (i - 1) * (IF LeftToRight THEN 100 ELSE 200))
                     - ((Len(out.locals.layers[r]) - 1) * (IF LeftToRight THEN 100 ELSE 200))
              /\ LayeringAxis(OutNodes[out.locals.layers[r][i]].position)
                   = (r - 1) * (IF LeftToRight THEN 300 ELSE 100)
         /\ LayerSum(out.locals.layers[r]) = 0
    /\ \A j1, j2 \in 1..Len(out.nodes) :
         (j1 # j2 /\ RankOf(j1) = RankOf(j2))
           => PackingAxis(OutNodes[j1].position) # PackingAxis(OutNodes[j2].position)

\* a layer of two nodes below rank 0 was packed left-to-right
C11_Witness ==
  /\ LayeredCall
  /\ LeftToRight
  /\ \E r \in 2..Len(out.locals.layers) :
       /\ Len(out.locals.layers[r]) = 2
       /\ OutNodes[out.locals.layers[r][1]].position = XY((r - 1) * 300, -50)
       /\ OutNodes[out.locals.layers[r][2]].position = XY((r - 1) * 300, 50)

(***************************************************************************)
(* C12  Grid layout for ERD: with N nodes and columns = ceil(sqrt(N)) the  *)
(* node at input index i is at ((i mod columns) * 300,                     *)
(* floor(i / columns) * 200), for every N >= 0 and whatever the edges and  *)
(* the layout style; no two nodes share a position and there are never     *)
(* more rows than columns.                                                 *)
(***************************************************************************)
GridCall == Done /\ out.diagramType = ERD

\* c = ceil(sqrt(N)), said without the square root
IsCeilSqrt(c, N) == c >= 0 /\ c * c >= N /\ (c = 0 \/ (c - 1) * (c - 1) < N)

C12_GridPlacement ==
  GridCall =>
    \E columns \in 0..Len(nodes) :
      /\ IsCeilSqrt(columns, Len(nodes))
      /\ Len(out.nodes) = Len(nodes)
      /\ \A j \in 1..Len(out.nodes) :
           /\ OutNodes[j].id = InIds[j]
           /\ OutNodes[j].position =
                XY(((j - 1) % columns) * 300, ((j - 1) \div columns) * 200)
           \* the row index of every node is below the number of columns
           /\ (j - 1) \div columns < columns
      /\ \A j1, j2 \in 1..Len(out.nodes) :
           j1 # j2 => OutNodes[j1].position # OutNodes[j2].position

\* a partially filled last row, on a graph that has edges
C12_Witness ==
  /\ GridCall
  /\ Len(out.nodes) = 3
  /\ Len(edges) >= 1
  /\ OutNodes[2].position = XY(300, 0)
  /\ OutNodes[3].position = XY(0, 200)

(***************************************************************************)
(* C13  Layering direction: Flowchart and OrgChart graphs are laid out     *)
(* top-to-bottom, the rank mapped to y (rank * 100) and the layer packed   *)
(* on x, for every one of the five layout styles.                          *)
(***************************************************************************)
C13_TopToBottom ==
  LayeredCall =>
    \A r \in 1..Len(out.locals.layers) :
      \A i \in 1..Len(out.locals.layers[r]) :
        /\ OutNodes[out.locals.layers[r][i]].position.y = (r - 1) * LAYERED_Y_SPACING
        /\ 2 * OutNodes[out.locals.layers[r][i]].position.x
             = (2 * (i - 1) * LAYERED_X_SPACING)
               - ((Len(out.locals.layers[r]) - 1) * LAYERED_X_SPACING)

(***************************************************************************)
(* C14  Root selection: layoutMindmap and assignBranchColors take as root  *)
(* the first node in input order that is the target of no edge, and the    *)
(* first node of the list when every node is the target of some edge; on   *)
(* one input both choose the same root, and a graph without a natural root *)
(* is laid out and coloured like any other.                                *)
(***************************************************************************)
TargetIds == {InEdges[k].target : k \in 1..Len(edges)}

\* the index the rule names, for a non-empty node list
ExpectedRoot ==
  IF \A i \in 1..Len(nodes) : InIds[i] \in TargetIds
  THEN 1
  ELSE CHOOSE i \in 1..Len(nodes) :
         InIds[i] \notin TargetIds /\ \A j \in 1..(i - 1) : InIds[j] \in TargetIds

C14_RootSelection ==
  (Done /\ BranchType(out.diagramType) /\ Len(nodes) > 0) =>
    /\ ~out.threw
    /\ out.locals.colorRoot = ExpectedRoot
    /\ out.diagramType = MINDMAP =>
         /\ out.locals.root = ExpectedRoot
         /\ out.locals.root = out.locals.colorRoot

\* every node is the target of an edge, and the first node became the root
\* of the placement and of the colouring
C14_Witness ==
  /\ Done
  /\ out.diagramType = MINDMAP
  /\ Len(nodes) >= 2
  /\ \A i \in 1..Len(nodes) : InIds[i] \in TargetIds
  /\ out.locals.root = 1
  /\ out.locals.colorRoot = 1

(***************************************************************************)
(* C15  Determinism: a second call of applyLayout on the graph the caller  *)
(* still holds, with the same diagram type and layout style, reads the     *)
(* same node and edge values as the first call (nothing the first call     *)
(* wrote is read by the second) and returns equal node ids and positions   *)
(* and equal edge styles, in objects of its own.                           *)
(***************************************************************************)
Again == pc = "again"

C15_Determinism ==
  Again =>
    /\ out.given = prev.call.given
    /\ out.style = prev.call.style
    /\ out.diagramType = prev.call.diagramType
    /\ out.threw = prev.call.threw
    /\ OutNodes = prev.nodeVals
    /\ OutEdges = prev.edgeVals
    /\ out.locals = prev.call.locals
    \* the first result is still what it was when it was returned
    /\ NodeVals(nodeHeap, prev.call.nodes) = prev.nodeVals
    /\ EdgeVals(edgeHeap, prev.call.edges) = prev.edgeVals

\* two calls on a mind map with a placed child and a styled edge returned
\* equal values in different objects
C15_Witness ==
  /\ Again
  /\ out.diagramType = MINDMAP
  /\ Len(out.nodes) >= 2
  /\ Len(out.edges) >= 1
  /\ \A j \in 1..Len(out.nodes) : out.nodes[j] # prev.call.nodes[j]
  /\ \A k \in 1..Len(out.edges) : out.edges[k] # prev.call.edges[k]
  /\ \E j \in 1..Len(out.nodes) : prev.nodeVals[j].position = XY(250, 0)
  /\ \E k \in 1..Len(out.edges) : BranchStyled(prev.edgeVals[k])
  /\ OutNodes = prev.nodeVals
  /\ OutEdges = prev.edgeVals

(***************************************************************************)
(* C16  Upstream failure is surfaced before the engine runs: when the      *)
(* generateDiagram awaited by handleWizardSubmit rejects (missing API key, *)
(* invalid JSON, empty response, failed request), the handler calls        *)
(* applyLayout not at all, leaves the diagram data and the view 'wizard'   *)
(* as they were, shows the message, and resets loading to false.           *)
(***************************************************************************)
UpstreamFailure(env) ==
  \/ ~env.apiKey
  \/ env.reply.kind \in {"rejects", "notJson", "noText"}

C16_UpstreamFailureSurfaced ==
  [][ (pc = "awaiting" /\ pc' = "idle" /\ UpstreamFailure(app'.env)) =>
        /\ app'.layoutCalls = app.layoutCalls
        /\ app'.diagramData = app.diagramData
        /\ app.view = "wizard"
        /\ app'.view = "wizard"
        /\ app'.loading = FALSE
        /\ app'.alert[1] = "Failed to generate diagram: "
        /\ app'.alert[2] # ""
        /\ UNCHANGED <<nodeHeap, edgeHeap>> ]_vars

\* after a diagram was made and the wizard reopened, an empty answer left the
\* earlier diagram data in place
C16_Witness ==
  /\ pc = "idle"
  /\ app.submits = 2
  /\ app.layoutCalls = 1
  /\ app.diagramData.set
  /\ Len(app.diagramData.nodes) = 3
  /\ app.view = "wizard"
  /\ ~app.loading
  /\ app.env.apiKey
  /\ app.env.reply.kind = "noText"
  /\ app.alert = alertText("No content generated from Gemini.")

(***************************************************************************)
(* C17  Rank assignment terminates on every input, cyclic graphs and       *)
(* self-loops included: the relaxation loop of layoutLayered makes at most *)
(* N+2 passes over the edge list (N = number of nodes), every pass but the *)
(* last changes a rank, and the loop stops right after the first pass in   *)
(* which no rank changed.                                                  *)
(***************************************************************************)
\* the rank maps before the first pass and after each of the first p passes
RECURSIVE RankTrace(_)
RankTrace(p) ==
  IF p = 0 THEN << [x \in InIdSet |-> 0] >>
  ELSE LET T == RankTrace(p - 1)
       IN  Append(T, relaxPass([ranks |-> T[p], changed |-> FALSE], InEdges, 1).ranks)

PassesWithinBound(T) ==
  /\ out.locals.passes \in 1..(Len(nodes) + 2)
  /\ out.locals.ranks = T[out.locals.passes + 1]
  \* no earlier pass left the ranks alone
  /\ \A p \in 1..(out.locals.passes - 1) : T[p + 1] # T[p]
  \* a loop that stops early stops on a pass without change
  /\ out.locals.passes < Len(nodes) + 2 => T[out.locals.passes + 1] = T[out.locals.passes]
  /\ out.locals.settled <=> T[out.locals.passes + 1] = T[out.locals.passes]

C17_RankAssignmentTerminates ==
  LayeredCall => Bind(RankTrace(out.locals.passes), PassesWithinBound)

\* a cycle with a self-loop used up all N+2 passes without settling
C17_Witness ==
  /\ LayeredCall
  /\ ~Acyclic(InEdges)
  /\ \E k \in 1..Len(edges) : InEdges[k].source = InEdges[k].target
  /\ Len(nodes) >= 2
  /\ out.locals.passes = Len(nodes) + 2
  /\ ~out.locals.settled
  /\ ~out.threw

(***************************************************************************)
(* C18  Revisit guard of the balanced-tree layout: during one              *)
(* layoutMindmap call the position of a node is assigned at most once, so  *)
(* a positioned node is never moved when it is reached again through a     *)
(* cycle, a self-loop on the root, a second parent or a duplicate edge;    *)
(* for the children of the root as for deeper nodes.                       *)
(***************************************************************************)
MindmapCall == Done /\ out.diagramType = MINDMAP /\ Len(out.nodes) > 0

\* the number of assignments of the position of the node id
WriteCount(id) ==
  Cardinality({w \in 1..Len(out.locals.writes) : out.locals.writes[w] = id})

C18_PositionAssignedOnce ==
  MindmapCall => \A i \in 1..Len(nodes) : WriteCount(InIds[i]) <= 1

(***************************************************************************)
(* C19  Balanced-tree placement: after layoutMindmap the chosen root is at *)
(* (0,0) for every input graph; the children of the root at even adjacency *)
(* index are at x = +250 and those at odd index at x = -250; every node    *)
(* reached at depth d below a right (left) child has x = +250*d (-250*d).  *)
(***************************************************************************)
MindmapRootId == OutNodes[out.locals.root].id

\* the returned position of the node id
PositionOfId(id) == OutNodes[FindNode(nodeHeap, out.nodes, id)].position

\* the children of the root on one side: parity 0 is the right side
SideChildren(parity) ==
  {out.locals.rootChildren[i] :
     i \in {j \in 1..Len(out.locals.rootChildren) : (j - 1) % 2 = parity}}

C19_BalancedPlacement ==
  MindmapCall =>
    /\ PositionOfId(MindmapRootId) = XY(0, 0)
    /\ \A i \in 1..Len(out.locals.rootChildren) :
         out.locals.rootChildren[i] \in InIdSet =>
           PositionOfId(out.locals.rootChildren[i]).x
             = (IF (i - 1) % 2 = 0 THEN 1 ELSE -1) * MINDMAP_H_SPACING
    /\ \A id \in (out.locals.positioned \cap InIdSet) \ {MindmapRootId} :
         \E d \in 1..Len(nodes) :
           \/ /\ id \in ReachFrom(OutEdges, SideChildren(0))
              /\ PositionOfId(id).x = MINDMAP_H_SPACING * d
           \/ /\ id \in ReachFrom(OutEdges, SideChildren(1))
              /\ PositionOfId(id).x = -(MINDMAP_H_SPACING * d)

(***************************************************************************)
(* C20  Vertical extent in balanced-tree mode, for input that is a tree    *)
(* rooted at the chosen root: the subtree height of a node is 60 times the *)
(* number of leaves below it (60 for a leaf); on each side of the root the *)
(* children's vertical slots [y - h/2, y + h/2] are pairwise               *)
(* non-overlapping and together cover exactly [-T/2, +T/2], T the sum of   *)
(* that side's subtree heights; so no two nodes with the same x share the  *)
(* same y.                                                                 *)
(***************************************************************************)
\* the input is a tree rooted at the chosen root
TreeInput ==
  /\ \A k \in 1..Len(edges) : ~Dangling(InEdges[k])
  /\ Cardinality({k \in 1..Len(edges) : InEdges[k].target = MindmapRootId}) = 0
  /\ \A id \in InIdSet \ {MindmapRootId} :
       Cardinality({k \in 1..Len(edges) : InEdges[k].target = id}) = 1
  /\ ReachFrom(InEdges, {MindmapRootId}) = InIdSet

IsLeaf(id) == \A k \in 1..Len(edges) : InEdges[k].source # id

\* the number of leaves in the subtree of id (id itself when it is a leaf)
LeavesBelow(id) == Cardinality({l \in ReachFrom(InEdges, {id}) : IsLeaf(l)})

HeightOf(id) == out.locals.nodeData[id]

\* twice the bounds of the vertical slot of the node id
SlotLow2(id) == (2 * PositionOfId(id).y) - HeightOf(id)
SlotHigh2(id) == (2 * PositionOfId(id).y) + HeightOf(id)

RECURSIVE SumOver(_, _)
SumOver(S, f) ==
  IF S = {} THEN 0
  ELSE LET x == CHOOSE y \in S : TRUE IN f[x] + SumOver(S \ {x}, f)

SlotsTile(side) ==
  LET T == SumOver(side, [c \in side |-> HeightOf(c)])
  IN  /\ \A c1, c2 \in side :
           c1 # c2 => (SlotHigh2(c1) <= SlotLow2(c2) \/ SlotHigh2(c2) <= SlotLow2(c1))
      /\ \A c \in side : -T <= SlotLow2(c) /\ SlotHigh2(c) <= T
      /\ side # {} => (\E c \in side : SlotLow2(c) = -T) /\ (\E c \in side : SlotHigh2(c) = T)

C20_VerticalExtent ==
  (MindmapCall /\ TreeInput) =>
    /\ \A id \in InIdSet :
         /\ id \in DOMAIN out.locals.nodeData
         /\ HeightOf(id) = 60 * LeavesBelow(id)
    /\ SlotsTile(SideChildren(0))
    /\ SlotsTile(SideChildren(1))
    /\ \A j1, j2 \in 1..Len(out.nodes) :
         (j1 # j2 /\ OutNodes[j1].position.x = OutNodes[j2].position.x)
           => OutNodes[j1].position.y # OutNodes[j2].position.y

\* a root with two children on its right side, one of them with two leaves
\* below it, the other a leaf, and a child on its left side
C20_Witness ==
  /\ MindmapCall
  /\ TreeInput
  /\ Len(nodes) = 6
  /\ \E c1, c2 \in SideChildren(0) :
       /\ HeightOf(c1) = 120
       /\ HeightOf(c2) = 60
       /\ PositionOfId(c1) = XY(250, -30)
       /\ PositionOfId(c2) = XY(250, 60)
  /\ \E id \in InIdSet : PositionOfId(id).x = -250

(***************************************************************************)
(* C21  Termination of the two recursions of layoutMindmap, cyclic graphs  *)
(* included: neither recursion is still running when its call budget is    *)
(* used up; calculateSubtreeHeight passes its guard at most once per node, *)
(* so it makes at most one call per edge plus one, and a call on a node    *)
(* seen before returns the leaf height 60 without expanding it; every call *)
(* placeNode makes from its children loop is for a node that was not yet   *)
(* positioned, so no node is the subject of two such calls.                *)
(***************************************************************************)
NoRepeat(s) == \A i, j \in 1..Len(s) : s[i] = s[j] => i = j

HeightCalls == out.locals.heights
PlaceCalls == out.locals.placing

C21_MindmapRecursionsTerminate ==
  MindmapCall =>
    /\ ~HeightCalls.overrun
    /\ ~PlaceCalls.overrun
    /\ NoRepeat(HeightCalls.expanded)
    /\ HeightCalls.calls = Len(HeightCalls.expanded) + Len(HeightCalls.revisits)
    /\ HeightCalls.calls <= 1 + Len(edges)
    /\ \A r \in 1..Len(HeightCalls.revisits) :
         /\ HeightCalls.revisits[r].h = MINDMAP_NODE_HEIGHT_SLOT
         /\ \E x \in 1..Len(HeightCalls.expanded) :
              HeightCalls.expanded[x] = HeightCalls.revisits[r].id
    /\ \A r \in 1..Len(PlaceCalls.recursed) : PlaceCalls.recursed[r].fresh
    /\ NoRepeat([r \in 1..Len(PlaceCalls.recursed) |-> PlaceCalls.recursed[r].id])
    /\ PlaceCalls.calls = Len(out.locals.rootChildren) + Len(PlaceCalls.recursed)
    /\ Len(PlaceCalls.recursed) < Cardinality(out.locals.positioned)

\* a cyclic graph on which both recursions ran and both guards answered
C21_Witness ==
  /\ MindmapCall
  /\ ~Acyclic(InEdges)
  /\ Len(HeightCalls.revisits) >= 1
  /\ Len(HeightCalls.expanded) >= 3
  /\ Len(PlaceCalls.recursed) >= 1
  /\ \E k \in 1..Len(edges) :
       /\ InEdges[k].source # MindmapRootId
       /\ InEdges[k].target \in out.locals.positioned
       /\ \A r \in 1..Len(PlaceCalls.recursed) :
            PlaceCalls.recursed[r].id # InEdges[k].target

(***************************************************************************)
(* C22  First assignment wins in branch colouring: within one              *)
(* assignBranchColors call, once a colour has been recorded for a node no  *)
(* later step records a different colour for it, in the initialisation of  *)
(* the root's children as in the breadth-first propagation, and each node  *)
(* is enqueued at most once.                                               *)
(***************************************************************************)
ColorSets == out.locals.colorSets

C22_FirstAssignmentWins ==
  ColoredCall =>
    /\ \A i, j \in 1..Len(ColorSets) :
         ColorSets[i].id = ColorSets[j].id => ColorSets[i].color = ColorSets[j].color
    /\ NoRepeat([i \in 1..Len(ColorSets) |-> ColorSets[i].id])

(***************************************************************************)
(* C23  Branch colouring of a tree: for Mindmap or OrgChart input that is  *)
(* a tree rooted at the chosen root, without duplicate edges, every edge   *)
(* (p,c) is returned with stroke palette[i mod 10], i being the adjacency  *)
(* index among the root's children of the first-level branch containing c, *)
(* with strokeWidth 2 and animated = false.                                *)
(***************************************************************************)
ColorTreeInput ==
  /\ \A k \in 1..Len(edges) : ~Dangling(InEdges[k])
  /\ \A k \in 1..Len(edges) : InEdges[k].target # ColorRootId
  /\ \A id \in InIdSet \ {ColorRootId} :
       Cardinality({k \in 1..Len(edges) : InEdges[k].target = id}) = 1
  /\ ReachFrom(InEdges, {ColorRootId}) = InIdSet

\* the adjacency indices (from 0) of the root's children whose branch holds c
BranchIndexOf(c) ==
  {i \in 0..(Len(ColorChildren) - 1) : c \in ReachFrom(InEdges, {ColorChildren[i + 1]})}

C23_TreeBranchColors ==
  (ColoredCall /\ ColorTreeInput) =>
    \A k \in 1..Len(out.edges) :
      /\ Cardinality(BranchIndexOf(OutEdges[k].target)) = 1
      /\ \A i \in BranchIndexOf(OutEdges[k].target) :
           /\ OutEdges[k].style.defined
           /\ OutEdges[k].style.stroke = BRANCH_COLORS[(i % 10) + 1]
           /\ OutEdges[k].style.strokeWidth = 2
           /\ OutEdges[k].animated = FALSE

\* an org chart whose second branch is three edges deep, next to two other
\* branches: the deepest edge carries the second palette colour
C23_Witness ==
  /\ ColoredCall
  /\ ColorTreeInput
  /\ out.diagramType = ORG_CHART
  /\ Len(ColorChildren) = 3
  /\ \E k1, k2 \in 1..Len(out.edges) :
       /\ OutEdges[k1].source = ColorChildren[2]
       /\ OutEdges[k2].source = OutEdges[k1].target
       /\ OutEdges[k2].style.stroke = BRANCH_COLORS[2]
       /\ OutEdges[k2].style.strokeWidth = 2
       /\ ~OutEdges[k2].animated
       /\ InEdges[k2].animated

(***************************************************************************)
(* C24  Crossing reduction of layoutLayered: after the sweep every layer   *)
(* i >= 1 is in non-decreasing order of barycenter, the barycenter of a    *)
(* node being the mean index, in the reordered layer i-1, of the sources   *)
(* of its incoming edges whose source has rank i-1, and -1 when it has no  *)
(* such edge; nodes of equal barycenter keep their input order; the sweep  *)
(* only permutes a layer.                                                  *)
(***************************************************************************)
FinalLayers == out.locals.layers
FinalRanks == out.locals.ranks

\* the node indices of rank r - 1, in input order
InputLayer(r) ==
  SelectSeq([j \in 1..Len(nodes) |-> j], LAMBDA j : FinalRanks[InIds[j]] = r - 1)

\* the edges into node j whose source has the rank of the layer before layer r
ParentEdges(j, r) ==
  {k \in 1..Len(edges) :
     /\ InEdges[k].target = InIds[j]
     /\ InEdges[k].source \in DOMAIN FinalRanks
     /\ FinalRanks[InEdges[k].source] = r - 2}

\* the places (from 0) of the id in the reordered layer r
PlacesIn(r, id) == {q \in 0..(Len(FinalLayers[r]) - 1) : InIds[FinalLayers[r][q + 1]] = id}

\* the barycenter of node j of layer r as the fraction num/den
MeanIndex(j, r) ==
  LET K == {k \in ParentEdges(j, r) : PlacesIn(r - 1, InEdges[k].source) # {}}
  IN  IF K = {} THEN [num |-> -1, den |-> 1]
      ELSE [num |-> SumOver(K, [k \in K |->
                      CHOOSE q \in PlacesIn(r - 1, InEdges[k].source) : TRUE]),
            den |-> Cardinality(K)]

FractionLess(a, b) == a.num * b.den < b.num * a.den

SweptLayer(r) ==
  LET L == FinalLayers[r]
  IN  /\ Len(L) = Len(InputLayer(r))
      /\ {L[q] : q \in 1..Len(L)} = {InputLayer(r)[q] : q \in 1..Len(L)}
      /\ r >= 2 =>
           \A p, q \in 1..Len(L) :
             p < q =>
               /\ ~FractionLess(MeanIndex(L[q], r), MeanIndex(L[p], r))
               /\ ~FractionLess(MeanIndex(L[p], r), MeanIndex(L[q], r)) => L[p] < L[q]

C24_CrossingReduction ==
  (LayeredCall /\ ~out.threw) => \A r \in 1..Len(FinalLayers) : SweptLayer(r)

(***************************************************************************)
(* C27  Longest-path ranks: for every acyclic edge list whose edges all    *)
(* join two input nodes, the rank layoutLayered computes for a node is the *)
(* number of edges on the longest path ending at it (0 without incoming    *)
(* edge), whatever the order of the edge list, and the loop reaches a pass *)
(* without change before its N+2 passes are used up.                       *)
(***************************************************************************)
\* the number of edges on the longest path ending at id (E acyclic)
RECURSIVE LongestPathTo(_, _)
LongestPathTo(E, id) ==
  LET In == {k \in 1..Len(E) : E[k].target = id}
  IN  IF In = {} THEN 0
      ELSE 1 + Max({LongestPathTo(E, E[k].source) : k \in In})

C27_LongestPathRanks ==
  (LayeredCall /\ Acyclic(InEdges) /\ \A k \in 1..Len(edges) : ~Dangling(InEdges[k])) =>
    /\ DOMAIN FinalRanks = InIdSet
    /\ \A id \in InIdSet : FinalRanks[id] = LongestPathTo(InEdges, id)
    /\ out.locals.settled
    /\ out.locals.passes < Len(nodes) + 2

\* a chain of three nodes whose second edge is listed first: ranks 0, 1, 2 after
\* two changing passes and one without change
C27_Witness ==
  /\ LayeredCall
  /\ Acyclic(InEdges)
  /\ \A k \in 1..Len(edges) : ~Dangling(InEdges[k])
  /\ Len(nodes) = 3
  /\ \E k1, k2 \in 1..Len(edges) :
       /\ k1 < k2
       /\ InEdges[k1].source = InEdges[k2].target
       /\ FinalRanks[InEdges[k1].target] = 2
       /\ FinalRanks[InEdges[k1].source] = 1
       /\ FinalRanks[InEdges[k2].source] = 0
  /\ out.locals.settled
  /\ out.locals.passes = 3

(***************************************************************************)
(* C28  Layers without gaps: in the layered strategy, for every input with *)
(* at least one node and every edge list (pure cycles, self-loops and      *)
(* edges from absent sources included), some node has rank 0 and every     *)
(* layer index from 0 to the largest rank of a node holds a node.          *)
(***************************************************************************)
NodeRanks == {FinalRanks[id] : id \in InIdSet}

C28_LayersWithoutGaps ==
  LayeredCall =>
    /\ 0 \in NodeRanks
    /\ \A r \in 0..Max(NodeRanks) : r \in NodeRanks

(***************************************************************************)
(* C25  Angular sector sweep of layoutRadial: the children of a node that  *)
(* are not yet visited split the range of their parent into equal          *)
(* consecutive parts, so the parts of siblings are disjoint and lie in the *)
(* parent's range; each child is placed at radius 300 * level at the       *)
(* middle of its part; and a node is positioned at most once, also when it *)
(* is a child of one of its own siblings or is named by duplicate edges.   *)
(***************************************************************************)
RadialCall ==
  /\ pc = "done" /\ out.engine = "earlier"
  /\ out.diagramType = MINDMAP /\ out.style = RADIAL /\ Len(out.nodes) > 0

Placed == out.locals.radial.placed

\* a/b <= c/d for fractions of positive denominator
FracLeq(a, b, c, d) == a * d <= c * b

\* the range s lies in the range t
SectorWithin(s, t) == FracLeq(t.lo, t.den, s.lo, s.den) /\ FracLeq(s.hi, s.den, t.hi, t.den)

\* the ranges s and t share no angle
SectorsDisjoint(s, t) == FracLeq(s.hi, s.den, t.lo, t.den) \/ FracLeq(t.hi, t.den, s.lo, s.den)

\* the assignments made by one loop over the children of one call
SameLoop(i, j) ==
  /\ Placed[i].parent = Placed[j].parent
  /\ Placed[i].level = Placed[j].level
  /\ Placed[i].range = Placed[j].range

C25_SectorSweep ==
  RadialCall =>
    /\ \A i \in 1..Len(Placed) :
         /\ SectorWithin(Placed[i].part, Placed[i].range)
         /\ Placed[i].part.lo * Placed[i].part.den < Placed[i].part.hi * Placed[i].part.den
         /\ Placed[i].radius = 300 * Placed[i].level
         \* the angle is the middle of the part
         /\ 2 * Placed[i].angle.num * Placed[i].part.den
              = (Placed[i].part.lo + Placed[i].part.hi) * Placed[i].angle.den
    /\ \A i, j \in 1..Len(Placed) :
         (i # j /\ SameLoop(i, j)) =>
           /\ SectorsDisjoint(Placed[i].part, Placed[j].part)
           \* equal parts
           /\ (Placed[i].part.hi - Placed[i].part.lo) * Placed[j].part.den
                = (Placed[j].part.hi - Placed[j].part.lo) * Placed[i].part.den
    /\ \A i, j \in 1..Len(Placed) : Placed[i].id = Placed[j].id => i = j
    /\ \A i \in 1..Len(Placed) :
         Placed[i].id # nodeHeap[out.locals.radial.center].id

(***************************************************************************)
(* C26.  A drill-down that completes installs the graph of that moment:    *)
(* every node and every edge the view held just before the completion is   *)
(* in the installed arrays, next to the generated ones, and no node that   *)
(* the view no longer held comes back.                                     *)
(***************************************************************************)
EdgeEnds(heap, arr) == {<<heap[arr[k]].source, heap[arr[k]].target>> : k \in 1..Len(arr)}
NodeIdsOf(heap, arr) == {heap[arr[i]].id : i \in 1..Len(arr)}
Generated == {FreshIds[i] : i \in (app.clock + 1)..app'.clock}

\* a step in which the pending drill-down completes without an alert
DrillDownCompletes ==
  /\ app.drillDown.pending
  /\ ~app'.drillDown.pending
  /\ app'.alerts = app.alerts

C26_DrillDownKeepsCurrentGraph ==
  [][DrillDownCompletes =>
       /\ NodeIdsOf(nodeHeap', nodes') = NodeIdsOf(nodeHeap, nodes) \cup Generated
       /\ EdgeEnds(edgeHeap, edges) \subseteq EdgeEnds(edgeHeap', edges')]_vars

(***************************************************************************)
(* C29.  At most one prompt update is pending; handlePromptSubmit starts   *)
(* a request only with a prompt that is not blank and while isUpdating is  *)
(* false; every started request, resolved or rejected, is followed by      *)
(* isUpdating being false again; and a failed request leaves the nodes,    *)
(* the edges and the prompt text as they were.                             *)
(***************************************************************************)
Blank(text) == text \in {"", " "}

UpdateStarts == app'.updates > app.updates
UpdateFails == app'.updates < app.updates /\ app'.alerts > app.alerts

C29_OneUpdateInFlight ==
  /\ [](app.updates <= 1 /\ (app.isUpdating <=> app.updates = 1))
  /\ [][/\ UpdateStarts => ~app.isUpdating /\ ~Blank(app.promptText) /\ app'.isUpdating
        /\ UpdateFails => /\ UNCHANGED <<nodeHeap, nodes, edgeHeap, edges>>
                          /\ app'.promptText = app.promptText
                          /\ ~app'.isUpdating]_vars
  /\ (app.isUpdating ~> ~app.isUpdating)

\* two requests were started one after the other, one of them failed, and none
\* is pending
C29_Witness ==
  /\ app.requests = 2
  /\ app.alerts = 1
  /\ app.updates = 0
  /\ ~app.isUpdating

(***************************************************************************)
(* C30.  Every edge of the view joins two nodes of the view, after any     *)
(* sequence of node clicks, handleAddNode, handleAddChild,                 *)
(* handleDeleteNode and completed prompt updates whose graphs have no      *)
(* dangling edge.                                                          *)
(***************************************************************************)
C30_NoDanglingEdgesInView ==
  \A k \in 1..Len(edges) :
    /\ edgeHeap[edges[k]].source \in NodeIdsOf(nodeHeap, nodes)
    /\ edgeHeap[edges[k]].target \in NodeIdsOf(nodeHeap, nodes)

====
